---- MODULE Spec2Model ----
(***************************************************************************)
(* Fab Inspector VS Code extension: the execution supervisor               *)
(* (runFabInspector / runNativeCommand), the CLI acquisition manager       *)
(* (CliManager) and the validation utilities, as state machines.           *)
(*                                                                         *)
(* Strings are sequences of one-character strings, so that includes(),     *)
(* startsWith(), path.normalize() and path.resolve() are computed the way  *)
(* the code computes them (POSIX flavour of node's path module).           *)
(***************************************************************************)
EXTENDS Integers, Sequences, FiniteSets, TLC

VARIABLES
    \* ---- validateFilePath applied to drawn inputs (SpecPath)
    vfpPath,        \* filePath argument
    vfpRoot,        \* workspaceRoot argument (<<>> = undefined)
    vfpResult,      \* NoResult, or the outcome record of the call
    \* ---- isCliValid applied to drawn inputs (SpecValid)
    icvIn,          \* the file-system, configuration and clock values read
    icvResult,      \* IcvPending, or the boolean returned
    \* ---- one call of a pure utility function on drawn inputs
    callOf,         \* the function called ("none" when this part is idle)
    callIn,         \* its arguments
    callOut,        \* CallPending, or [done |-> TRUE, value |-> what the call produced]
    \* ---- the editor selection of the wrap and unwrap commands
    originalText,   \* the selected text before the first command
    editorText,     \* the selected text now
    wrapDepth,      \* wraps not yet undone by an unwrap
    edits,          \* replacements of the selection so far
    \* ---- OutputChannelManager
    ocmInstance,    \* OutputChannelManager.instance is set
    outputChannel,  \* instance.outputChannel: 0 = undefined, else the channel's number
    created,        \* channels made by createOutputChannel so far (numbered 1..created)
    disposed,       \* the channels dispose() was called on
    returned,       \* what the getOutputChannel calls returned, in order
    lastOp,         \* the call made last: "none", "get", "dispose", "reset"
    \* ---- the command being executed (Spec)
    cmd,            \* "inspect" (runFabInspector), "runRule", "updateCli"
    pc,             \* position in the command's async flow
    workspaceRoot,  \* workspaceFolders[0].uri.fsPath (<<>> = no workspace)
    fabricItemPath, \* run request: target path
    rulesPath,      \* run request: rules file path
    formats,        \* run request: output format
    hasCleanup,     \* a cleanup callback was supplied
    selKind,        \* runRule: what the editor selection is
    rfiCalls,       \* invocations of runFabInspector
    tempExists,     \* the temporary rules file is on disk
    cleanupCalls,   \* invocations of the cleanup callback, by anyone
    valFailed,      \* runNativeCommand's validation threw
    ecaReturned,    \* ensureCliAvailable returned a path
    \* ---- the promise of runNativeCommand and its subprocess
    isResolved,     \* the guard flag
    settled,        \* "none" (no promise), "pending", "resolved", "rejected"
    settledBy,      \* the handler that settled it
    timerArmed,     \* the 5-minute timer is pending
    procAlive,      \* the spawned subprocess is running
    exitCode,       \* the code the subprocess ends with
    evCount,        \* process events delivered so far
    spawns,         \* spawn() calls of the CLI
    spawnRules,     \* the value passed after '-rules'
    nativeCleanups, \* cleanup invocations made by the promise's handlers
    settleCalls,    \* calls of resolve or reject made by the promise's handlers
    \* ---- two runs side by side that differ only in the subprocess's stderr
    stderrText,     \* <<a, b>>: what the subprocess writes to stderr in either run
    exitSeen,       \* the subprocess's 'exit' or 'error' event has been emitted
    rejectMsg,      \* <<a, b>>: message of the Error the promise was rejected with
    notes,          \* <<a, b>>: the notification messages shown in either run
    \* ---- CliManager and its install directory
    platform,       \* os.platform()
    binDir,         \* the install directory exists
    binFiles,       \* names present in the install directory
    markerText,     \* content of .download-timestamp
    userConsent,    \* the persisted cliUserConsent setting
    consentPrompts, \* times the consent prompt was shown
    cacheValid,     \* what ensureCliAvailable got from isCliValid: "unknown", "valid", "invalid"
    dlCaller,       \* who called downloadCli: "ensure", "force", "retry"
    dlResult,       \* "none", "running", "ok", "failed", "refused"
    dlCalls,        \* downloadCli calls so far
    retryCount,     \* downloadCli's retryCount
    attempts,       \* loop iterations started by the current downloadCli call
    zipContent,     \* entries of the archive downloaded in this attempt
    downloads,      \* HTTPS requests issued
    startFiles,     \* content of the install directory when the command was invoked
    shutdownRuns,   \* completed forceShutdownCli calls
    shutdownDone,   \* forceShutdownCli has completed in the current attempt or forceUpdate call
    killed,         \* taskkill has terminated a running copy of the executable
    binTouched,     \* something in the install directory was created or deleted
    retryOffered    \* the terminal error with its Retry button is showing

pathVars == <<vfpPath, vfpRoot, vfpResult>>
validVars == <<icvIn, icvResult>>
callVars == <<callOf, callIn, callOut>>
editVars == <<originalText, editorText, wrapDepth, edits>>
chanVars == <<ocmInstance, outputChannel, created, disposed, returned, lastOp>>
pureVars == <<pathVars, validVars, callVars, editVars, chanVars>>
reqVars == <<cmd, workspaceRoot, fabricItemPath, rulesPath, formats, hasCleanup, selKind,
             startFiles>>
promVars == <<isResolved, settled, settledBy, timerArmed, procAlive, exitCode, evCount,
              spawns, spawnRules, nativeCleanups, settleCalls>>
noteVars == <<stderrText, exitSeen, rejectMsg, notes>>
dlVars == <<dlCaller, dlResult, dlCalls, retryCount, attempts, zipContent, retryOffered>>
fsVars == <<binDir, binFiles, markerText, binTouched>>
envVars == <<platform, userConsent, consentPrompts, cacheValid, downloads, shutdownRuns,
            shutdownDone, killed>>
cliVars == <<dlVars, fsVars, envVars>>
runVars == <<reqVars, rfiCalls, pc, tempExists, cleanupCalls, valFailed, ecaReturned, promVars,
             noteVars, cliVars>>

vars == <<pureVars, runVars>>

(***************************************************************************)
(* Bounds                                                                  *)
(***************************************************************************)
MaxPathLen == 5
MaxEvents == 3
MaxEntries == 2
MaxDownloadCalls == 2

(***************************************************************************)
(* String helpers (String.prototype.startsWith / includes)                 *)
(***************************************************************************)
Sep == "/"
Dot == <<".">>
DotDot == <<".", ".">>

StartsWith(s, p) == Len(p) <= Len(s) /\ SubSeq(s, 1, Len(p)) = p

Includes(s, sub) ==
    \E i \in 1..(Len(s) - Len(sub) + 1) : SubSeq(s, i, i + Len(sub) - 1) = sub

(***************************************************************************)
(* node path (posix): normalizeString, normalize, resolve, basename,       *)
(* dirname, extname                                                        *)
(***************************************************************************)
RECURSIVE SplitFrom(_, _, _)
SplitFrom(s, i, cur) ==
    IF i > Len(s) THEN <<cur>>
    ELSE IF s[i] = Sep THEN <<cur>> \o SplitFrom(s, i + 1, <<>>)
    ELSE SplitFrom(s, i + 1, Append(cur, s[i]))

\* the segments between separators, empty segments included
Split(s) == SplitFrom(s, 1, <<>>)

RECURSIVE JoinSegs(_)
JoinSegs(segs) ==
    IF segs = <<>> THEN <<>>
    ELSE IF Len(segs) = 1 THEN segs[1]
    ELSE segs[1] \o <<Sep>> \o JoinSegs(Tail(segs))

\* normalizeString: drops empty and "." segments, resolves ".." against the
\* previous segment, keeps a leading ".." only when allowAboveRoot
RECURSIVE NormSegs(_, _, _)
NormSegs(segs, res, allowAboveRoot) ==
    IF segs = <<>> THEN res
    ELSE LET seg == Head(segs)
             rest == Tail(segs)
         IN  IF seg = <<>> \/ seg = Dot THEN NormSegs(rest, res, allowAboveRoot)
             ELSE IF seg = DotDot THEN
                 IF res # <<>> /\ res[Len(res)] # DotDot
                 THEN NormSegs(rest, SubSeq(res, 1, Len(res) - 1), allowAboveRoot)
                 ELSE IF allowAboveRoot
                      THEN NormSegs(rest, Append(res, DotDot), allowAboveRoot)
                      ELSE NormSegs(rest, res, allowAboveRoot)
             ELSE NormSegs(rest, Append(res, seg), allowAboveRoot)

NormalizeString(s, allowAboveRoot) == JoinSegs(NormSegs(Split(s), <<>>, allowAboveRoot))

IsAbsolute(s) == Len(s) > 0 /\ s[1] = Sep

PathNormalize(p) ==
    IF Len(p) = 0 THEN Dot
    ELSE LET isAbsolute == IsAbsolute(p)
             trailingSeparator == p[Len(p)] = Sep
             body == NormalizeString(p, ~isAbsolute)
         IN  IF Len(body) = 0
             THEN (IF isAbsolute THEN <<Sep>>
                   ELSE IF trailingSeparator THEN <<".", Sep>> ELSE Dot)
             ELSE LET withTrail == IF trailingSeparator THEN body \o <<Sep>> ELSE body
                  IN  IF isAbsolute THEN <<Sep>> \o withTrail ELSE withTrail

\* process.cwd(), used by path.resolve only when no argument is absolute
Cwd == <<"/", "c">>

\* path.resolve(a, b): arguments are taken right to left until one is absolute
PathResolve(a, b) ==
    LET joined == IF IsAbsolute(b) THEN b
                  ELSE IF IsAbsolute(a) THEN a \o <<Sep>> \o b
                  ELSE Cwd \o <<Sep>> \o a \o <<Sep>> \o b
    IN  <<Sep>> \o NormalizeString(joined, FALSE)

\* path.resolve(a)
PathResolve1(a) ==
    LET joined == IF IsAbsolute(a) THEN a ELSE Cwd \o <<Sep>> \o a
    IN  <<Sep>> \o NormalizeString(joined, FALSE)

NonEmptySegs(p) == SelectSeq(Split(p), LAMBDA seg : seg # <<>>)

PathBasename(p) ==
    LET segs == NonEmptySegs(p)
    IN  IF segs = <<>> THEN <<>> ELSE segs[Len(segs)]

PathDirname(p) ==
    LET segs == NonEmptySegs(p)
    IN  IF Len(segs) <= 1 THEN (IF IsAbsolute(p) THEN <<Sep>> ELSE Dot)
        ELSE (IF IsAbsolute(p) THEN <<Sep>> ELSE <<>>)
             \o JoinSegs(SubSeq(segs, 1, Len(segs) - 1))

LastDot(s) ==
    LET idx == {i \in 1..Len(s) : s[i] = "."}
    IN  IF idx = {} THEN 0 ELSE CHOOSE i \in idx : \A j \in idx : j <= i

PathExtname(p) ==
    LET base == PathBasename(p)
        d == LastDot(base)
    IN  IF d <= 1 \/ base = DotDot THEN <<>> ELSE SubSeq(base, d, Len(base))

\* String.prototype.toLowerCase on the letters the model uses
LowerOf(c) ==
    CASE c = "J" -> "j"
      [] c = "S" -> "s"
      [] c = "O" -> "o"
      [] c = "N" -> "n"
      [] OTHER -> c

ToLowerCase(s) == [i \in 1..Len(s) |-> LowerOf(s[i])]

(***************************************************************************)
(* SecurityUtils / ValidationUtils                                         *)
(***************************************************************************)
ThrowNone == "none"
ThrowTraversal == "Directory traversal detected in file path"
ThrowBoundary == "File path must be within workspace boundaries"

\* validateFilePath(filePath, workspaceRoot): [threw, value]
validateFilePath(filePath, wsRoot) ==
    LET normalizedPath == PathNormalize(filePath)
    IN  IF Includes(normalizedPath, DotDot)
        THEN [threw |-> ThrowTraversal, value |-> <<>>]
        ELSE IF wsRoot # <<>>
                /\ ~StartsWith(PathResolve(wsRoot, normalizedPath),
                               PathResolve1(wsRoot))
        THEN [threw |-> ThrowBoundary, value |-> <<>>]
        ELSE [threw |-> ThrowNone, value |-> normalizedPath]

\* validateFileExtension(filePath, allowedExtensions)
validateFileExtension(filePath, allowedExtensions) ==
    ToLowerCase(PathExtname(filePath)) \in allowedExtensions

\* the character class of the replace() call (the backquote, which the lexer
\* of TLA+ strings does not accept, is written BACKQUOTE)
DangerousChars == {";", "&", "|", "BACKQUOTE", "$", "(", ")", "{", "}", "[", "]", "<", ">", "/"}

\* sanitizeCommandArg(arg)
sanitizeCommandArg(arg) == SelectSeq(arg, LAMBDA c : c \notin DangerousChars)

(***************************************************************************)
(* SpecPath: validateFilePath on every short path over a small alphabet    *)
(***************************************************************************)
PathAlphabet == {"/", ".", "w", "x"}

PathInputs == UNION {[1..n -> PathAlphabet] : n \in 0..MaxPathLen}

RootInputs == {<<>>, <<"/", "w">>, <<"/", "w", "/", "x">>}

\* no Error: the promise has not been rejected (a message is a sequence of
\* text pieces, the way a template literal concatenates them)
NoMessage == <<<<>>, <<>>>>

NoResult == [threw |-> "pending", value |-> <<>>]

PathIdle ==
    /\ vfpPath = <<>>
    /\ vfpRoot = <<>>
    /\ vfpResult = NoResult

CallPending == [done |-> FALSE, value |-> <<>>]

CallIdle == callOf = "none" /\ callIn = <<>> /\ callOut = CallPending

EditIdle == originalText = <<>> /\ editorText = <<>> /\ wrapDepth = 0 /\ edits = 0

ChanIdle ==
    /\ ocmInstance = FALSE /\ outputChannel = 0 /\ created = 0
    /\ disposed = {} /\ returned = <<>> /\ lastOp = "none"

IcvPending == [done |-> FALSE, value |-> FALSE]
IcvReturned(b) == [done |-> TRUE, value |-> b]

ValidIdle ==
    /\ icvIn = [exe |-> FALSE, files |-> FALSE, autoUpdate |-> FALSE,
                marker |-> [present |-> FALSE, readable |-> FALSE, text |-> <<>>],
                interval |-> [set |-> FALSE, hours |-> 0], now |-> 0]
    /\ icvResult = IcvPending

RunIdle ==
    /\ cmd = "none" /\ pc = "done"
    /\ workspaceRoot = <<>> /\ fabricItemPath = <<>> /\ rulesPath = <<>> /\ formats = <<>>
    /\ hasCleanup = FALSE /\ selKind = "rule" /\ rfiCalls = 0 /\ startFiles = {}
    /\ tempExists = FALSE /\ cleanupCalls = 0 /\ valFailed = FALSE /\ ecaReturned = FALSE
    /\ isResolved = FALSE /\ settled = "none" /\ settledBy = "none" /\ timerArmed = FALSE
    /\ procAlive = FALSE /\ exitCode = 0 /\ evCount = 0 /\ spawns = 0 /\ spawnRules = <<>>
    /\ nativeCleanups = 0 /\ settleCalls = 0
    /\ stderrText = <<"", "">> /\ exitSeen = FALSE /\ rejectMsg = NoMessage /\ notes = <<{}, {}>>
    /\ platform = "win32" /\ binDir = FALSE /\ binFiles = {}
    /\ markerText = <<>> /\ userConsent = FALSE /\ consentPrompts = 0 /\ cacheValid = "unknown"
    /\ dlCaller = "none" /\ dlResult = "none" /\ dlCalls = 0 /\ retryCount = 0 /\ attempts = 0
    /\ zipContent = <<>> /\ downloads = 0 /\ shutdownRuns = 0 /\ shutdownDone = FALSE /\ killed = FALSE
    /\ binTouched = FALSE /\ retryOffered = FALSE

InitPath ==
    /\ RunIdle
    /\ vfpPath \in PathInputs
    /\ vfpRoot \in RootInputs
    /\ vfpResult = NoResult
    /\ ValidIdle /\ CallIdle /\ EditIdle /\ ChanIdle

ValidateFilePathCall ==
    /\ vfpResult = NoResult
    /\ vfpResult' = validateFilePath(vfpPath, vfpRoot)
    /\ UNCHANGED <<vfpPath, vfpRoot>>
    /\ UNCHANGED <<validVars, callVars, editVars, chanVars, runVars>>

NextPath == ValidateFilePathCall

SpecPath == InitPath /\ [][NextPath]_vars

\* directory containment: the root's segments are a prefix of the path's
IsWithinDir(resolved, root) ==
    LET rs == NonEmptySegs(root)
        ps == NonEmptySegs(resolved)
    IN  Len(rs) <= Len(ps) /\ SubSeq(ps, 1, Len(rs)) = rs

vfpResolved == PathResolve(vfpRoot, PathNormalize(vfpPath))

\* C10: with a workspace root, validateFilePath throws for every path that
\* resolves neither to the root nor to a descendant directory entry of it,
\* and never throws the boundary error for a path resolving inside the root.
C10_BoundaryByDirectory ==
    (vfpResult # NoResult /\ vfpRoot # <<>>) =>
        /\ (~IsWithinDir(vfpResolved, PathResolve1(vfpRoot)) => vfpResult.threw # ThrowNone)
        /\ (IsWithinDir(vfpResolved, PathResolve1(vfpRoot)) => vfpResult.threw # ThrowBoundary)

\* a ".." segment between separators
HasParentSegment(p) == \E i \in 1..Len(Split(p)) : Split(p)[i] = DotDot

\* C16: validateFilePath throws the traversal error for every path whose
\* normalized form has a parent-directory segment; a path whose normalized
\* form has none, validated without a workspace root, is returned normalized.
C16_TraversalOrNormalized ==
    vfpResult # NoResult =>
        /\ HasParentSegment(PathNormalize(vfpPath)) => vfpResult.threw = ThrowTraversal
        /\ (~HasParentSegment(PathNormalize(vfpPath)) /\ vfpRoot = <<>>) =>
               vfpResult = [threw |-> ThrowNone, value |-> PathNormalize(vfpPath)]

(***************************************************************************)
(* CliManager.isCliValid                                                   *)
(***************************************************************************)
CacheValidityHours == 24
MsPerHour == 60 * 60 * 1000

Digits == <<"0", "1", "2", "3", "4", "5", "6", "7", "8", "9">>
DigitValue(c) == CHOOSE d \in 0..9 : Digits[d + 1] = c
IsDigit(c) == \E d \in 0..9 : Digits[d + 1] = c

\* Number.prototype.toString of a non-negative integer
RECURSIVE NumToString(_)
NumToString(n) == IF n < 10 THEN <<Digits[n + 1]>> ELSE NumToString(n \div 10) \o <<Digits[(n % 10) + 1]>>

NaN == [nan |-> TRUE, val |-> 0]
Num(n) == [nan |-> FALSE, val |-> n]

\* parseInt: the value of the leading run of digits, NaN when there is none
RECURSIVE ParseDigits(_, _, _)
ParseDigits(s, i, acc) ==
    IF i > Len(s) \/ ~IsDigit(s[i]) THEN acc
    ELSE ParseDigits(s, i + 1, acc * 10 + DigitValue(s[i]))

ParseInt(s) == IF Len(s) = 0 \/ ~IsDigit(s[1]) THEN NaN ELSE Num(ParseDigits(s, 1, 0))

\* config.get<number>('cliUpdateInterval', this.cacheValidityHours)
ConfigInterval(cfg) == IF cfg.set THEN cfg.hours ELSE CacheValidityHours

\* variant of the expiry test that also expires a marker exactly one interval old
CacheExpiredAtInterval(now, downloadTime, cacheValidityMs) ==
    IF downloadTime.nan THEN FALSE ELSE now - downloadTime.val >= cacheValidityMs

\* Date.now() - downloadTime > cacheValidityMs (false when downloadTime is NaN)
CacheExpired(now, downloadTime, cacheValidityMs) ==
    IF downloadTime.nan THEN FALSE ELSE now - downloadTime.val > cacheValidityMs

\* isCliValid(): exe, files = existsSync results; marker = the state of the
\* .download-timestamp file; a failing readFileSync lands in the catch block
isCliValid(exe, files, autoUpdate, marker, intervalCfg, now) ==
    IF ~exe THEN FALSE
    ELSE IF ~files THEN FALSE
    ELSE IF autoUpdate /\ marker.present
         THEN IF ~marker.readable THEN FALSE
              ELSE ~CacheExpired(now, ParseInt(marker.text), ConfigInterval(intervalCfg) * MsPerHour)
         ELSE TRUE

(***************************************************************************)
(* Names: run requests, the temporary rules file, the install directory    *)
(***************************************************************************)
WsRoot == <<"/", "w", "s">>
TmpDir == <<"/", "t", "m", "p">>
OtherFolder == <<"/", "o">>
RulesOk == <<"/", "w", "s", "/", "r", "/", "a", ".", "j", "s", "o", "n">>
RulesMissing == <<"/", "w", "s", "/", "r", "/", "b", ".", "j", "s", "o", "n">>
RulesTxt == <<"/", "w", "s", "/", "r", "/", "a", ".", "t", "x", "t">>
RulesOutside == <<"/", "o", "/", "a", ".", "j", "s", "o", "n">>
RulesNoFolder == <<"/", "w", "s", "/", "r", "/", "q", "/", "a", ".", "j", "s", "o", "n">>
Console == <<"C", "o", "n", "s", "o", "l", "e">>
GitHub == <<"G", "i", "t", "H", "u", "b">>
JsonExt == <<".", "j", "s", "o", "n">>

\* the rules files that are on disk
ExistingFiles == {RulesOk, RulesTxt, RulesOutside}

TempMarker == <<"f", "a", "b", "-", "i", "n", "s", "p", "e", "c", "t", "o", "r", "-", "t", "e", "m", "p", "-", "r", "u", "l", "e">>

\* path.join(os.tmpdir(), `fab-inspector-temp-rule-${Date.now()}.json`)
TempRulesFile == TmpDir \o <<Sep>> \o TempMarker \o <<"-", "1">> \o JsonExt

CliExeName == <<"P", "B", "I", "R", "I", "n", "s", "p", "e", "c", "t", "o", "r", "C", "L", "I", ".", "e", "x", "e">>
SkiaName == <<"l", "i", "b", "S", "k", "i", "a", "S", "h", "a", "r", "p", ".", "d", "l", "l">>
LicenseName == <<"L", "I", "C", "E", "N", "S", "E">>
ZipName == <<"c", "l", "i", "-", "t", "e", "m", "p", ".", "z", "i", "p">>
FilesName == <<"F", "i", "l", "e", "s">>
TimestampName == <<".", "d", "o", "w", "n", "l", "o", "a", "d", "-", "t", "i", "m", "e", "s", "t", "a", "m", "p">>

CliPrefix == <<"w", "i", "n", "-", "x", "6", "4", "/", "C", "L", "I", "/">>
FilesSlash == FilesName \o <<Sep>>
CliFilesPrefix == CliPrefix \o FilesSlash

\* archive entry names
EntryExe == CliPrefix \o CliExeName
EntryFilesDir == CliFilesPrefix
EntryFilesFile == CliFilesPrefix \o <<"r", ".", "j", "s", "o", "n">>
EntryOther == <<"d", "o", "c", "s", "/", "r", "e", "a", "d", "m", "e", ".", "m", "d">>
EntryTraversal == CliPrefix \o <<".", ".", "/", "x", ".", "e", "x", "e">>

EntryNames == {EntryExe, EntryFilesDir, EntryFilesFile, EntryOther, EntryTraversal}

\* the archives a download can deliver: every sequence of entries up to MaxEntries
Archives == UNION {[1..n -> EntryNames] : n \in 0..MaxEntries}

(***************************************************************************)
(* CliManager: forceShutdownCli, cleanupOldCliFiles, extractZip            *)
(***************************************************************************)
MaxRetries == 3

ExeExists(files) == CliExeName \in files
FilesFolderExists(files) == FilesName \in files

\* fs.rmSync(dir, { recursive: true, force: true })
RemoveTree(files, dir) == {f \in files : f # dir /\ ~StartsWith(f, dir \o <<Sep>>)}

\* filesToClean, in the order of the loop
FilesToClean == <<CliExeName, SkiaName, LicenseName, ZipName>>

\* cleanupOldCliFiles(): failAt = 0 when nothing throws; failAt = i when the
\* unlinkSync of FilesToClean[i] throws; failAt = Len + 1 when rmSync throws.
\* The catch block swallows the error and leaves what was not yet deleted.
cleanupOldCliFiles(files, failAt) ==
    LET upto == IF failAt = 0 THEN Len(FilesToClean) ELSE failAt - 1
        afterUnlink == files \ {FilesToClean[i] : i \in 1..upto}
    IN  IF failAt = 0 THEN RemoveTree(afterUnlink, FilesName) ELSE afterUnlink

\* the points at which the cleanup can throw: only where something exists
CleanupFailPoints(files) ==
    {0} \cup {i \in 1..Len(FilesToClean) : FilesToClean[i] \in files}
        \cup (IF FilesFolderExists(files) THEN {Len(FilesToClean) + 1} ELSE {})

IsDirectoryEntry(name) == Len(name) > 0 /\ name[Len(name)] = Sep

StripTrailingSep(name) ==
    IF IsDirectoryEntry(name) THEN SubSeq(name, 1, Len(name) - 1) ELSE name

\* the directories fs.mkdirSync(dir, { recursive: true }) creates for a path
WithAncestors(rel) ==
    LET segs == NonEmptySegs(rel)
    IN  {JoinSegs(SubSeq(segs, 1, k)) : k \in 1..Len(segs)}

\* the body of the second loop of extractZip for one entry
ExtractEntry(entryName, files) ==
    IF StartsWith(entryName, CliPrefix) /\ ~Includes(entryName, FilesSlash)
    THEN IF ~IsDirectoryEntry(entryName)
         THEN files \cup {PathBasename(entryName)}
         ELSE files
    ELSE IF StartsWith(entryName, CliFilesPrefix)
    THEN LET relativePath == SubSeq(entryName, Len(CliPrefix) + 1, Len(entryName))
         IN  files \cup WithAncestors(StripTrailingSep(relativePath))
    ELSE files

RECURSIVE ExtractAll(_, _)
ExtractAll(entries, files) ==
    IF entries = <<>> THEN files
    ELSE ExtractAll(Tail(entries), ExtractEntry(Head(entries), files))

\* the first loop of extractZip
HasTraversal(entries) == \E i \in 1..Len(entries) : Includes(entries[i], DotDot)

\* number of entries in front of the first entry with a traversal segment
SafePrefixLen(entries) ==
    IF HasTraversal(entries)
    THEN (CHOOSE i \in 1..Len(entries) :
            /\ Includes(entries[i], DotDot)
            /\ \A j \in 1..(i - 1) : ~Includes(entries[j], DotDot)) - 1
    ELSE Len(entries)

\* variant of extractZip with one loop, checking each entry just before writing it
extractZipSingleLoop(entries, files) ==
    IF HasTraversal(entries)
    THEN [threw |-> TRUE, files |-> ExtractAll(SubSeq(entries, 1, SafePrefixLen(entries)), files)]
    ELSE [threw |-> FALSE, files |-> ExtractAll(entries, files)]

\* extractZip(zipPath, extractPath): [threw, files]
extractZip(entries, files) ==
    IF HasTraversal(entries)
    THEN [threw |-> TRUE, files |-> files]
    ELSE [threw |-> FALSE, files |-> ExtractAll(entries, files)]

\* Date.now() values at installation time
InstallTimes == {1}

(***************************************************************************)
(* SpecValid: isCliValid on drawn installation states                      *)
(***************************************************************************)
IntervalConfigs == {[set |-> FALSE, hours |-> 0], [set |-> TRUE, hours |-> 1]}

NowValues ==
    {0} \cup {ConfigInterval(c) * MsPerHour + d : c \in IntervalConfigs, d \in {-1, 0, 1}}

MarkerStates ==
    {[present |-> FALSE, readable |-> FALSE, text |-> <<>>],
     [present |-> TRUE, readable |-> FALSE, text |-> <<>>],
     [present |-> TRUE, readable |-> TRUE, text |-> NumToString(0)],
     [present |-> TRUE, readable |-> TRUE, text |-> NumToString(1)],
     [present |-> TRUE, readable |-> TRUE, text |-> <<"x">>],
     [present |-> TRUE, readable |-> TRUE, text |-> <<>>]}

InitValid ==
    /\ icvIn \in [exe : BOOLEAN, files : BOOLEAN, autoUpdate : BOOLEAN,
                   marker : MarkerStates, interval : IntervalConfigs, now : NowValues]
    /\ icvResult = IcvPending
    /\ PathIdle /\ CallIdle /\ EditIdle /\ ChanIdle
    /\ RunIdle

IsCliValidCall ==
    /\ icvResult = IcvPending
    /\ icvResult' = IcvReturned(isCliValid(icvIn.exe, icvIn.files, icvIn.autoUpdate,
                                           icvIn.marker, icvIn.interval, icvIn.now))
    /\ UNCHANGED icvIn
    /\ UNCHANGED <<pathVars, callVars, editVars, chanVars, runVars>>

NextValid == IsCliValidCall

SpecValid == InitValid /\ [][NextValid]_vars

\* the marker's age: now minus the recorded timestamp (NaN when unparseable)
icvAge ==
    IF ParseInt(icvIn.marker.text).nan THEN NaN
    ELSE Num(icvIn.now - ParseInt(icvIn.marker.text).val)

icvIntervalMs == ConfigInterval(icvIn.interval) * MsPerHour

\* C6 as stated: isCliValid returns true iff the executable exists, the Files
\* directory exists and (auto-update is off, or there is no marker, or the
\* marker's age is strictly less than the interval).
C6_StrictlyLess ==
    icvResult.done =>
        (icvResult.value = (/\ icvIn.exe
                            /\ icvIn.files
                            /\ \/ ~icvIn.autoUpdate
                               \/ ~icvIn.marker.present
                               \/ (~icvAge.nan /\ icvAge.val < icvIntervalMs)))

\* C6 amended: isCliValid returns true iff the executable exists, the Files
\* directory exists and (auto-update is off, or there is no marker, or the
\* marker can be read and its age is not greater than the interval: an age
\* equal to the interval, or a marker whose text is not a number, is fresh).
C6_NotGreater ==
    icvResult.done =>
        (icvResult.value = (/\ icvIn.exe
                            /\ icvIn.files
                            /\ \/ ~icvIn.autoUpdate
                               \/ ~icvIn.marker.present
                               \/ /\ icvIn.marker.readable
                                  /\ (icvAge.nan \/ icvAge.val <= icvIntervalMs)))

\* a complete installation, auto-update on, marker age exactly the interval
C6_Witness ==
    /\ icvResult = IcvReturned(TRUE)
    /\ icvIn.autoUpdate /\ icvIn.marker.present /\ icvIn.marker.readable
    /\ ~icvAge.nan /\ icvAge.val = icvIntervalMs

(***************************************************************************)
(* JSON values, and findRuleById (jsonUtils.ts)                            *)
(***************************************************************************)
\* A JSON value is [k, s, kids]: k its type, s the text of a string or a
\* number, kids the members of an object (in insertion order) or the
\* elements of an array (keyed by index), each [key, val].
JUndefined == [k |-> "undefined", s |-> "", kids |-> <<>>]
JNull == [k |-> "null", s |-> "", kids |-> <<>>]
JTrue == [k |-> "boolean", s |-> "true", kids |-> <<>>]
JStr(t) == [k |-> "string", s |-> t, kids |-> <<>>]
JNum(t) == [k |-> "number", s |-> t, kids |-> <<>>]
IndexKey(i) == <<"0", "1", "2", "3", "4">>[i]
JArr(items) ==
    [k |-> "array", s |-> "",
     kids |-> [i \in 1..Len(items) |-> [key |-> IndexKey(i), val |-> items[i]]]]
JObj(fields) == [k |-> "object", s |-> "", kids |-> fields]
Field(name, v) == [key |-> name, val |-> v]

\* typeof v === 'object' && v (arrays included)
IsObjectLike(v) == v.k \in {"object", "array"}

HasOwnKey(v, name) == \E i \in 1..Len(v.kids) : v.kids[i].key = name

\* v[name] for a value that is not null or undefined
GetProp(v, name) ==
    IF v.k = "object" /\ HasOwnKey(v, name)
    THEN v.kids[CHOOSE i \in 1..Len(v.kids) : v.kids[i].key = name].val
    ELSE JUndefined

Truthy(v) ==
    /\ v.k \notin {"undefined", "null"}
    /\ ~(v.k = "string" /\ v.s = "")

\* findObjectsWithProperty(obj, 'id', propertyValue): [threw, results].
\* current.hasOwnProperty(key) is a TypeError when the object has a member
\* of its own named hasOwnProperty (a JSON value is never a function).
RECURSIVE search(_, _)
RECURSIVE searchKids(_, _, _)
search(current, propertyValue) ==
    IF ~IsObjectLike(current)
    THEN [threw |-> FALSE, results |-> <<>>]
    ELSE LET own == IF GetProp(current, "id") = JStr(propertyValue)
                    THEN <<current>> ELSE <<>>
         IN  IF current.k = "object" /\ HasOwnKey(current, "hasOwnProperty")
             THEN [threw |-> TRUE, results |-> own]
             ELSE LET rest == searchKids(current.kids, 1, propertyValue)
                  IN  [threw |-> rest.threw, results |-> own \o rest.results]

searchKids(kids, i, propertyValue) ==
    IF i > Len(kids)
    THEN [threw |-> FALSE, results |-> <<>>]
    ELSE LET r == search(kids[i].val, propertyValue)
         IN  IF r.threw THEN r
             ELSE LET r2 == searchKids(kids, i + 1, propertyValue)
                  IN  [threw |-> r2.threw, results |-> r.results \o r2.results]

findObjectsWithProperty(obj, propertyValue) == search(obj, propertyValue)

\* documentJson.rules.find(rule => rule.id === ruleId): the index of the
\* first match (0 when there is none); rule.id is a TypeError on null
RECURSIVE FindInRules(_, _, _)
FindInRules(kids, i, ruleId) ==
    IF i > Len(kids) THEN [threw |-> FALSE, index |-> 0]
    ELSE IF kids[i].val.k = "null" THEN [threw |-> TRUE, index |-> 0]
    ELSE IF GetProp(kids[i].val, "id") = JStr(ruleId) THEN [threw |-> FALSE, index |-> i]
    ELSE FindInRules(kids, i + 1, ruleId)

NotFound == [found |-> FALSE, rule |-> JNull]
Found(v) == [found |-> TRUE, rule |-> v]

\* findRuleById(documentText, ruleId); doc = [parses, value] is what
\* JSON.parse(documentText) does: throw, or return value
findRuleById(doc, ruleId) ==
    IF ~doc.parses THEN NotFound
    ELSE IF doc.value.k = "null" THEN NotFound
    ELSE LET rules == GetProp(doc.value, "rules")
             inRules == IF Truthy(rules) /\ rules.k = "array"
                        THEN FindInRules(rules.kids, 1, ruleId)
                        ELSE [threw |-> FALSE, index |-> 0]
             matches == findObjectsWithProperty(doc.value, ruleId)
         IN  IF inRules.threw THEN NotFound
             ELSE IF inRules.index > 0 THEN Found(rules.kids[inRules.index].val)
             ELSE IF matches.threw THEN NotFound
             ELSE IF Len(matches.results) > 0 THEN Found(matches.results[1])
             ELSE NotFound


\* the documents findRuleById is applied to
MaxItems == 2

RuleA == JObj(<<Field("id", JStr("a"))>>)
RuleA2 == JObj(<<Field("id", JStr("a")), Field("n", JNum("2"))>>)
RuleB == JObj(<<Field("id", JStr("b"))>>)
NestedA == JObj(<<Field("x", JObj(<<Field("id", JStr("a")), Field("n", JNum("3"))>>))>>)
OwnHasOwn == JObj(<<Field("hasOwnProperty", JStr("a"))>>)

JsonElems == {JNull, JStr("a"), RuleA, RuleA2, RuleB, NestedA, OwnHasOwn}

SeqsUpTo(S, n) == UNION {[1..m -> S] : m \in 0..n}

JsonArrays == {JArr(items) : items \in SeqsUpTo(JsonElems, MaxItems)}

JsonObjects ==
    {JObj(<<Field("rules", r), Field("m", e)>>) : r \in JsonElems \cup JsonArrays, e \in JsonElems}
    \cup
    {JObj(<<Field("m", e), Field("rules", r)>>) : r \in JsonElems \cup JsonArrays, e \in JsonElems}

Documents ==
    {[parses |-> FALSE, value |-> JNull]}
    \cup {[parses |-> TRUE, value |-> v] : v \in JsonElems \cup JsonArrays \cup JsonObjects}

RuleIds == {"a", "c"}

FindIdle == PathIdle /\ ValidIdle /\ RunIdle /\ EditIdle /\ ChanIdle

InitFind ==
    /\ FindIdle
    /\ callOf = "findRuleById"
    /\ callIn \in Documents \X RuleIds
    /\ callOut = CallPending

FindRuleByIdCall ==
    /\ callOf = "findRuleById"
    /\ callOut = CallPending
    /\ callOut' = [done |-> TRUE, value |-> findRuleById(callIn[1], callIn[2])]
    /\ UNCHANGED <<callOf, callIn>>
    /\ UNCHANGED <<pathVars, validVars, editVars, chanVars, runVars>>

NextFind == FindRuleByIdCall

SpecFind == InitFind /\ [][NextFind]_vars

\* the objects of a document whose id is the rule id, in the order of a
\* depth-first walk that visits an object before its members
RECURSIVE Walk(_, _)
RECURSIVE WalkKids(_, _, _)
Walk(v, ruleId) ==
    IF ~IsObjectLike(v) THEN <<>>
    ELSE (IF GetProp(v, "id") = JStr(ruleId) THEN <<v>> ELSE <<>>)
         \o WalkKids(v.kids, 1, ruleId)

WalkKids(kids, i, ruleId) ==
    IF i > Len(kids) THEN <<>>
    ELSE Walk(kids[i].val, ruleId) \o WalkKids(kids, i + 1, ruleId)

\* the elements of the top-level rules array that are objects with the id
RulesMatches(doc, ruleId) ==
    LET rules == IF doc.value.k = "object" THEN GetProp(doc.value, "rules") ELSE JUndefined
    IN  IF rules.k # "array" THEN <<>>
        ELSE SelectSeq([i \in 1..Len(rules.kids) |-> rules.kids[i].val],
                       LAMBDA e : e.k = "object" /\ GetProp(e, "id") = JStr(ruleId))

SearchOrder(doc, ruleId) ==
    IF ~doc.parses THEN NotFound
    ELSE IF Len(RulesMatches(doc, ruleId)) > 0 THEN Found(RulesMatches(doc, ruleId)[1])
    ELSE IF Len(Walk(doc.value, ruleId)) > 0 THEN Found(Walk(doc.value, ruleId)[1])
    ELSE NotFound

\* C15: findRuleById returns nothing for text that is not JSON; otherwise
\* the first element of the top-level rules array that is an object with
\* the rule id; otherwise the first object with the rule id in a depth-first
\* walk of the document; otherwise nothing.
C15_SearchOrder ==
    (callOf = "findRuleById" /\ callOut.done) =>
        callOut.value = SearchOrder(callIn[1], callIn[2])

(***************************************************************************)
(* validateRulesFileName (ValidationUtils and SecurityUtils)               *)
(***************************************************************************)
Backslash == "\\"

LowerLetters == {"a", "b", "c", "d", "e", "f", "g", "h", "i", "j", "k", "l", "m",
                 "n", "o", "p", "q", "r", "s", "t", "u", "v", "w", "x", "y", "z"}
UpperLetters == {"A", "B", "C", "D", "E", "F", "G", "H", "I", "J", "K", "L", "M",
                 "N", "O", "P", "Q", "R", "S", "T", "U", "V", "W", "X", "Y", "Z"}
IsLetterChar(c) == c \in LowerLetters \cup UpperLetters
IsAlnum(c) == IsLetterChar(c) \/ IsDigit(c)

\* the index of the last character of s that satisfies Test, 0 when none does
LastIndexWhere(s, Test(_)) ==
    LET idx == {i \in 1..Len(s) : Test(s[i])}
    IN  IF idx = {} THEN 0 ELSE CHOOSE i \in idx : \A j \in idx : j <= i

\* path.win32.basename(p): a drive prefix is skipped, both separators count,
\* trailing separators are dropped
Win32Basename(p) ==
    LET isSep(c) == c = Sep \/ c = Backslash
        body == IF Len(p) >= 2 /\ IsLetterChar(p[1]) /\ p[2] = ":"
                THEN SubSeq(p, 3, Len(p)) ELSE p
        end == LastIndexWhere(body, LAMBDA c : ~isSep(c))
        start == LastIndexWhere(SubSeq(body, 1, end), isSep) + 1
    IN  SubSeq(body, start, end)

\* path.basename of the platform the extension host runs on
BasenameOn(os, p) == IF os = "win32" THEN Win32Basename(p) ELSE PathBasename(p)

\* fileName.match(/([^\\/]+)$/): the run of non-separators the name ends
\* with; [matched, group]
MatchBaseName(fileName) ==
    LET isSep(c) == c = Sep \/ c = Backslash
        lastSep == LastIndexWhere(fileName, isSep)
    IN  IF lastSep = Len(fileName)
        THEN [matched |-> FALSE, group |-> <<>>]
        ELSE [matched |-> TRUE, group |-> SubSeq(fileName, lastSep + 1, Len(fileName))]

DotJson == <<".", "j", "s", "o", "n">>

\* /^[a-zA-Z0-9\-_.]+\.json$/.test(baseName)
RulesNameRegex(baseName) ==
    /\ Len(baseName) > Len(DotJson)
    /\ SubSeq(baseName, Len(baseName) - Len(DotJson) + 1, Len(baseName)) = DotJson
    /\ \A i \in 1..(Len(baseName) - Len(DotJson)) :
           IsAlnum(baseName[i]) \/ baseName[i] \in {"-", "_", "."}

ThrowNameTraversal == "Path traversal detected in rules file name"
ThrowNameFormat == "Invalid rules file name format"

\* ValidationUtils.validateRulesFileName(fileName)
ValidationUtils_validateRulesFileName(fileName) ==
    LET baseNameMatch == MatchBaseName(fileName)
        baseName == IF baseNameMatch.matched THEN baseNameMatch.group ELSE fileName
    IN  IF Includes(fileName, DotDot) THEN [threw |-> ThrowNameTraversal, value |-> <<>>]
        ELSE IF ~RulesNameRegex(baseName) THEN [threw |-> ThrowNameFormat, value |-> <<>>]
        ELSE [threw |-> ThrowNone, value |-> baseName]

\* SecurityUtils.validateRulesFileName(fileName), on the platform os
SecurityUtils_validateRulesFileName(os, fileName) ==
    LET baseName == BasenameOn(os, fileName)
    IN  IF Includes(fileName, DotDot) THEN [threw |-> ThrowNameTraversal, value |-> <<>>]
        ELSE IF ~RulesNameRegex(baseName) THEN [threw |-> ThrowNameFormat, value |-> <<>>]
        ELSE [threw |-> ThrowNone, value |-> baseName]

validateRulesFileName(class, os, fileName) ==
    IF class = "ValidationUtils" THEN ValidationUtils_validateRulesFileName(fileName)
    ELSE SecurityUtils_validateRulesFileName(os, fileName)

\* the names validateRulesFileName is applied to: a short head over a small
\* alphabet, followed by one of a few endings
MaxNameLen == 3

NameAlphabet == {"/", Backslash, ".", "a", ":", "@"}

NameEndings == {<<>>, DotJson, DotJson \o <<"/">>, <<".", "J", "S", "O", "N">>}

NameInputs ==
    {h \o t : h \in UNION {[1..n -> NameAlphabet] : n \in 0..MaxNameLen}, t \in NameEndings}

NameIdle == PathIdle /\ ValidIdle /\ RunIdle /\ EditIdle /\ ChanIdle

InitName ==
    /\ NameIdle
    /\ callOf \in {"ValidationUtils.validateRulesFileName", "SecurityUtils.validateRulesFileName"}
    /\ callIn \in [os : {"win32", "linux"}, fileName : NameInputs]
    /\ callOut = CallPending

ValidateRulesFileNameCall ==
    /\ callOut = CallPending
    /\ callOut' = [done |-> TRUE,
                   value |-> validateRulesFileName(
                                 IF callOf = "ValidationUtils.validateRulesFileName"
                                 THEN "ValidationUtils" ELSE "SecurityUtils",
                                 callIn.os, callIn.fileName)]
    /\ UNCHANGED <<callOf, callIn>>
    /\ UNCHANGED <<pathVars, validVars, editVars, chanVars, runVars>>

NextName == ValidateRulesFileNameCall

SpecName == InitName /\ [][NextName]_vars

\* what is left of a name after stripping the longest prefix that ends in a
\* separator
LastComponent(fileName) ==
    SubSeq(fileName,
           LastIndexWhere(fileName, LAMBDA c : c = Sep \/ c = Backslash) + 1,
           Len(fileName))

\* C17: validateRulesFileName throws for every name that contains ".." or
\* whose last component does not match ^[a-zA-Z0-9\-_.]+\.json$, and returns
\* exactly the last component of every other name.
C17_BareFileName ==
    callOut.done =>
        IF Includes(callIn.fileName, DotDot) \/ ~RulesNameRegex(LastComponent(callIn.fileName))
        THEN callOut.value.threw # ThrowNone
        ELSE callOut.value = [threw |-> ThrowNone, value |-> LastComponent(callIn.fileName)]

(***************************************************************************)
(* ValidationUtils.validateFolderName                                      *)
(***************************************************************************)
LowerSeq == <<"a", "b", "c", "d", "e", "f", "g", "h", "i", "j", "k", "l", "m",
              "n", "o", "p", "q", "r", "s", "t", "u", "v", "w", "x", "y", "z">>
UpperSeq == <<"A", "B", "C", "D", "E", "F", "G", "H", "I", "J", "K", "L", "M",
              "N", "O", "P", "Q", "R", "S", "T", "U", "V", "W", "X", "Y", "Z">>

UpperOf(c) ==
    IF c \in LowerLetters THEN UpperSeq[CHOOSE i \in 1..26 : LowerSeq[i] = c] ELSE c

\* String.prototype.toUpperCase
ToUpperCase(s) == [i \in 1..Len(s) |-> UpperOf(s[i])]

\* the white space String.prototype.trim removes, as far as the inputs have it
WhiteSpace == {" ", "\t", "\n"}

\* String.prototype.trim
Trim(s) ==
    LET idx == {i \in 1..Len(s) : s[i] \notin WhiteSpace}
    IN  IF idx = {} THEN <<>>
        ELSE SubSeq(s, CHOOSE i \in idx : \A j \in idx : i <= j,
                       CHOOSE i \in idx : \A j \in idx : j <= i)

reservedNames ==
    {<<"C", "O", "N">>, <<"P", "R", "N">>, <<"A", "U", "X">>, <<"N", "U", "L">>}
    \cup {<<"C", "O", "M", Digits[d + 1]>> : d \in 1..9}
    \cup {<<"L", "P", "T", Digits[d + 1]>> : d \in 1..9}

\* /[<>:"|?*\x00-\x1f]/
invalidChars == {"<", ">", ":", "\"", "|", "?", "*", "\t", "\n"}

MaxFolderNameLength == 100

ThrowFolderNonEmpty == "Folder name must be a non-empty string"
ThrowFolderEmpty == "Folder name cannot be empty or only whitespace"
ThrowFolderSeparators == "Folder name cannot contain path separators or traversal sequences"
ThrowFolderReserved == "Folder name is a reserved system name"
ThrowFolderInvalid == "Folder name contains invalid characters"
ThrowFolderTooLong == "Folder name is too long"
ThrowFolderLetters == "Folder name can only contain letters, numbers, hyphens, underscores, and spaces"

Thrown(message) == [threw |-> message, value |-> <<>>]

\* /^[a-zA-Z0-9\-_ ]+$/.test(trimmed)
FolderNameRegex(trimmed) ==
    /\ Len(trimmed) > 0
    /\ \A i \in 1..Len(trimmed) : IsAlnum(trimmed[i]) \/ trimmed[i] \in {"-", "_", " "}

\* validateFolderName with the reserved names compared in the case given
validateFolderNameCaseSensitive(folderName) ==
    LET trimmed == Trim(folderName)
    IN  IF Len(folderName) = 0 THEN Thrown(ThrowFolderNonEmpty)
        ELSE IF Len(trimmed) = 0 THEN Thrown(ThrowFolderEmpty)
        ELSE IF Includes(trimmed, DotDot) \/ Includes(trimmed, <<Sep>>)
                \/ Includes(trimmed, <<Backslash>>)
        THEN Thrown(ThrowFolderSeparators)
        ELSE IF trimmed \in reservedNames THEN Thrown(ThrowFolderReserved)
        ELSE IF \E i \in 1..Len(trimmed) : trimmed[i] \in invalidChars
        THEN Thrown(ThrowFolderInvalid)
        ELSE IF Len(trimmed) > MaxFolderNameLength THEN Thrown(ThrowFolderTooLong)
        ELSE IF ~FolderNameRegex(trimmed) THEN Thrown(ThrowFolderLetters)
        ELSE [threw |-> ThrowNone, value |-> trimmed]

\* validateFolderName(folderName)
validateFolderName(folderName) ==
    LET trimmed == Trim(folderName)
    IN  IF Len(folderName) = 0 THEN Thrown(ThrowFolderNonEmpty)
        ELSE IF Len(trimmed) = 0 THEN Thrown(ThrowFolderEmpty)
        ELSE IF Includes(trimmed, DotDot) \/ Includes(trimmed, <<Sep>>)
                \/ Includes(trimmed, <<Backslash>>)
        THEN Thrown(ThrowFolderSeparators)
        ELSE IF ToUpperCase(trimmed) \in reservedNames THEN Thrown(ThrowFolderReserved)
        ELSE IF \E i \in 1..Len(trimmed) : trimmed[i] \in invalidChars
        THEN Thrown(ThrowFolderInvalid)
        ELSE IF Len(trimmed) > MaxFolderNameLength THEN Thrown(ThrowFolderTooLong)
        ELSE IF ~FolderNameRegex(trimmed) THEN Thrown(ThrowFolderLetters)
        ELSE [threw |-> ThrowNone, value |-> trimmed]

\* the folder names validateFolderName is applied to: every short text over
\* a small alphabet, and a list of names (device names in several cases,
\* names next to them, names at the length limit), bare and padded
MaxFolderLen == 3

FolderAlphabet == {" ", "\t", "a", "-", ".", "@"}

ShortFolderNames == UNION {[1..n -> FolderAlphabet] : n \in 0..MaxFolderLen}

Repeat(c, n) == [i \in 1..n |-> c]

LowerOfAny(c) ==
    IF c \in UpperLetters THEN LowerSeq[CHOOSE i \in 1..26 : UpperSeq[i] = c] ELSE c

DeviceNameCores ==
    reservedNames
    \cup {[i \in 1..Len(r) |-> LowerOfAny(r[i])] : r \in reservedNames}
    \cup {[i \in 1..Len(r) |-> IF i = 1 THEN r[i] ELSE LowerOfAny(r[i])] : r \in reservedNames}
    \cup {<<"C", "O", "M", "0">>, <<"C", "O", "N", "1">>, <<"C", "O", "M", "1", "0">>,
          <<"C", "O">>, <<"C", "O", "N", " ", "a">>}

OtherCores ==
    {<<"m", "y", "-", "r", "u", "l", "e", "s", "_", "2", "0", "2", "4">>,
     <<"m", "y", " ", "r", "u", "l", "e", "s">>,
     <<"a", "/", "b">>, <<"a", Backslash, "b">>, <<"a", "<", "b">>, <<"a", "\n", "b">>,
     <<"a", "#", "1">>, <<"Z", "9">>}
    \cup {Repeat("a", n) : n \in (MaxFolderNameLength - 1)..(MaxFolderNameLength + 1)}
    \cup {Repeat("a", MaxFolderNameLength) \o <<"@">>, <<"a">> \o Repeat(" ", MaxFolderNameLength - 1)}

FolderPads == {<<>>, <<" ">>, <<" ", " ">>, <<"\t">>, <<"\n">>}

FolderNames ==
    ShortFolderNames
    \cup {l \o c \o r : l \in FolderPads, c \in DeviceNameCores \cup OtherCores, r \in FolderPads}

FolderIdle == PathIdle /\ ValidIdle /\ RunIdle /\ EditIdle /\ ChanIdle

InitFolder ==
    /\ FolderIdle
    /\ callOf = "validateFolderName"
    /\ callIn \in FolderNames
    /\ callOut = CallPending

ValidateFolderNameCall ==
    /\ callOf = "validateFolderName"
    /\ callOut = CallPending
    /\ callOut' = [done |-> TRUE, value |-> validateFolderName(callIn)]
    /\ UNCHANGED <<callOf, callIn>>
    /\ UNCHANGED <<pathVars, validVars, editVars, chanVars, runVars>>

NextFolder == ValidateFolderNameCall

SpecFolder == InitFolder /\ [][NextFolder]_vars

EqualIgnoringCase(a, b) ==
    Len(a) = Len(b) /\ \A i \in 1..Len(a) : LowerOfAny(a[i]) = LowerOfAny(b[i])

\* the name without the white space at its two ends
Trimmed(name) ==
    IF \A i \in 1..Len(name) : name[i] \in WhiteSpace THEN <<>>
    ELSE LET first == CHOOSE i \in 1..Len(name) :
                          name[i] \notin WhiteSpace /\ \A j \in 1..(i - 1) : name[j] \in WhiteSpace
             last == CHOOSE i \in 1..Len(name) :
                         name[i] \notin WhiteSpace /\ \A j \in (i + 1)..Len(name) : name[j] \in WhiteSpace
         IN  SubSeq(name, first, last)

AcceptableFolderName(t) ==
    /\ Len(t) > 0
    /\ Len(t) <= 100
    /\ ~\E r \in reservedNames : EqualIgnoringCase(t, r)
    /\ \A i \in 1..Len(t) : IsAlnum(t[i]) \/ t[i] \in {"-", "_", " "}

\* C18: validateFolderName returns the trimmed name exactly when the trimmed
\* name is non-empty, at most 100 characters long, is no reserved device name
\* in any letter case and has only letters, digits, hyphens, underscores and
\* spaces; it throws for every other name.
C18_FolderNameAccepted ==
    (callOf = "validateFolderName" /\ callOut.done) =>
        IF AcceptableFolderName(Trimmed(callIn))
        THEN callOut.value = [threw |-> ThrowNone, value |-> Trimmed(callIn)]
        ELSE callOut.value.threw # ThrowNone

\* a device name in lower case, padded, has been rejected as reserved
C18_Witness ==
    /\ callOf = "validateFolderName" /\ callOut.done
    /\ callIn = <<" ", "c", "o", "n", " ">>
    /\ callOut.value.threw = ThrowFolderReserved

(***************************************************************************)
(* SecurityUtils.validateCliVersion and CliManager.getCliUrl               *)
(***************************************************************************)
Latest == <<"l", "a", "t", "e", "s", "t">>

\* \d+\.\d+\.\d+$ from position i on: part counts the number being read,
\* some says it has a digit already
RECURSIVE MatchNumbers(_, _, _, _)
MatchNumbers(s, i, part, some) ==
    IF i > Len(s) THEN part = 3 /\ some
    ELSE IF IsDigit(s[i]) THEN MatchNumbers(s, i + 1, part, TRUE)
    ELSE IF s[i] = "." /\ some /\ part < 3 THEN MatchNumbers(s, i + 1, part + 1, FALSE)
    ELSE FALSE

\* the pattern with \d* in place of \d+
RECURSIVE MatchNumbersOrNone(_, _, _)
MatchNumbersOrNone(s, i, part) ==
    IF i > Len(s) THEN part = 3
    ELSE IF IsDigit(s[i]) THEN MatchNumbersOrNone(s, i + 1, part)
    ELSE IF s[i] = "." /\ part < 3 THEN MatchNumbersOrNone(s, i + 1, part + 1)
    ELSE FALSE

versionRegexEmptyNumbers(version) ==
    \/ version = Latest
    \/ Len(version) > 0 /\ version[1] = "v" /\ MatchNumbersOrNone(version, 2, 1)

\* /^(latest|v\d+\.\d+\.\d+)$/.test(version)
versionRegex(version) ==
    \/ version = Latest
    \/ Len(version) > 0 /\ version[1] = "v" /\ MatchNumbers(version, 2, 1, FALSE)

\* validateCliVersion(version)
validateCliVersion(version) == IF ~versionRegex(version) THEN Latest ELSE version

\* a URL is the sequence of the pieces its template literal joins
LatestUrl ==
    <<"https://github.com/NatVanG/PBI-InspectorV2/releases/latest/download/win-x64-CLI.zip">>
ReleaseUrlHead == "https://github.com/NatVanG/PBI-InspectorV2/releases/download/"
ReleaseUrlTail == "/win-x64-CLI.zip"

\* getCliUrl(), version being the configured fabInspector.cliVersion
getCliUrl(version) ==
    LET safeVersion == validateCliVersion(version)
    IN  IF safeVersion = Latest THEN LatestUrl
        ELSE <<ReleaseUrlHead>> \o safeVersion \o <<ReleaseUrlTail>>

\* the configured versions: every short text over a small alphabet, and
\* texts around the word latest
MaxVersionLen == 6

VersionAlphabet == {"v", ".", "1", "9", "/"}

VersionInputs ==
    UNION {[1..n -> VersionAlphabet] : n \in 0..MaxVersionLen}
    \cup {Latest, Latest \o <<"\n">>, <<" ">> \o Latest, Latest \o <<"/", ".", ".">>,
          <<"L">> \o Tail(Latest), <<"v">> \o Latest}

VersionIdle == PathIdle /\ ValidIdle /\ RunIdle /\ EditIdle /\ ChanIdle

InitVersion ==
    /\ VersionIdle
    /\ callOf \in {"validateCliVersion", "getCliUrl"}
    /\ callIn \in VersionInputs
    /\ callOut = CallPending

ValidateCliVersionCall ==
    /\ callOf = "validateCliVersion"
    /\ callOut = CallPending
    /\ callOut' = [done |-> TRUE, value |-> validateCliVersion(callIn)]
    /\ UNCHANGED <<callOf, callIn>>
    /\ UNCHANGED <<pathVars, validVars, editVars, chanVars, runVars>>

GetCliUrlCall ==
    /\ callOf = "getCliUrl"
    /\ callOut = CallPending
    /\ callOut' = [done |-> TRUE, value |-> getCliUrl(callIn)]
    /\ UNCHANGED <<callOf, callIn>>
    /\ UNCHANGED <<pathVars, validVars, editVars, chanVars, runVars>>

NextVersion == ValidateCliVersionCall \/ GetCliUrlCall

SpecVersion == InitVersion /\ [][NextVersion]_vars

AllDigits(s) == Len(s) > 0 /\ \A i \in 1..Len(s) : IsDigit(s[i])

\* v<digits>.<digits>.<digits>, the whole text
IsVersionTag(t) ==
    \E i, j \in 1..Len(t) :
        /\ i < j /\ t[1] = "v" /\ t[i] = "." /\ t[j] = "."
        /\ AllDigits(SubSeq(t, 2, i - 1))
        /\ AllDigits(SubSeq(t, i + 1, j - 1))
        /\ AllDigits(SubSeq(t, j + 1, Len(t)))

\* C19: validateCliVersion returns its input when that is latest or a
\* version tag v<digits>.<digits>.<digits>, and latest for every other text;
\* the URL getCliUrl builds is the latest-release URL or the download URL of
\* a version tag, whatever the configured version is.
C19_VersionOrLatest ==
    callOut.done =>
        /\ callOf = "validateCliVersion" =>
               callOut.value = IF callIn = Latest \/ IsVersionTag(callIn) THEN callIn ELSE Latest
        /\ callOf = "getCliUrl" =>
               \/ callOut.value = LatestUrl
               \/ /\ Len(callOut.value) > 2
                  /\ Head(callOut.value) = ReleaseUrlHead
                  /\ callOut.value[Len(callOut.value)] = ReleaseUrlTail
                  /\ IsVersionTag(SubSeq(callOut.value, 2, Len(callOut.value) - 1))

\* a configured version with a path separator in it got the latest-release URL
C19_Witness ==
    /\ callOf = "getCliUrl" /\ callOut.done
    /\ Includes(callIn, <<Sep>>)
    /\ StartsWith(callIn, <<"v", "1", ".">>)
    /\ callOut.value = LatestUrl

(***************************************************************************)
(* The wrapWithLog and unwrapLog commands                                  *)
(***************************************************************************)
\* A JSON text is [valid, tree]: tree has the shape of a JSON value, with
\* the literal as written in the s of a string or number, and the members
\* of an object as written (a key may be repeated).  A number value is
\* named by the shortest literal that denotes it, negative zero by "-0".
InvalidText == [valid |-> FALSE, tree |-> JNull]
TextOf(tree) == [valid |-> TRUE, tree |-> tree]

\* the value of a number literal: beyond the largest double it is Infinity
NumberValue(literal) ==
    CASE literal = "4.2e1" -> "42"
      [] literal = "1e400" -> "Infinity"
      [] literal = "-1e400" -> "-Infinity"
      [] OTHER -> literal

\* the value of a string literal (escapes are resolved)
StringValue(literal) == IF literal = "\\u0041" THEN "A" ELSE literal

\* the members an object gets from the members as written: a repeated key
\* keeps the place of its first occurrence and the value of its last
DistinctMembers(kids) ==
    LET firsts == SelectSeq([i \in 1..Len(kids) |-> [i |-> i, key |-> kids[i].key]],
                            LAMBDA m : \A j \in 1..(m.i - 1) : kids[j].key # m.key)
        lastOf(key) == CHOOSE i \in 1..Len(kids) :
                           kids[i].key = key /\ \A j \in (i + 1)..Len(kids) : kids[j].key # key
    IN  [n \in 1..Len(firsts) |-> [key |-> firsts[n].key, val |-> kids[lastOf(firsts[n].key)].val]]

\* JSON.parse of a valid text
RECURSIVE JsonParse(_)
JsonParse(tree) ==
    CASE tree.k = "number" -> JNum(NumberValue(tree.s))
      [] tree.k = "string" -> JStr(StringValue(tree.s))
      [] tree.k = "array" ->
            [k |-> "array", s |-> "",
             kids |-> [i \in 1..Len(tree.kids) |->
                           [key |-> tree.kids[i].key, val |-> JsonParse(tree.kids[i].val)]]]
      [] tree.k = "object" ->
            LET members == DistinctMembers(tree.kids)
            IN  JObj([i \in 1..Len(members) |->
                          [key |-> members[i].key, val |-> JsonParse(members[i].val)]])
      [] OTHER -> tree

\* JSON.stringify(value, null, 2): a number that is not finite is written
\* as null, negative zero as 0
RECURSIVE JsonStringify(_)
JsonStringify(value) ==
    CASE value.k = "number" ->
            IF value.s \in {"Infinity", "-Infinity", "NaN"} THEN JNull
            ELSE IF value.s = "-0" THEN JNum("0")
            ELSE value
      [] value.k \in {"array", "object"} ->
            [k |-> value.k, s |-> "",
             kids |-> [i \in 1..Len(value.kids) |->
                           [key |-> value.kids[i].key, val |-> JsonStringify(value.kids[i].val)]]]
      [] OTHER -> value

\* parsedJson.hasOwnProperty('log'): "throws" for null and for an object
\* with a member of its own named hasOwnProperty, else "yes" or "no"
HasOwnLog(parsedJson) ==
    IF parsedJson.k = "null" THEN "throws"
    ELSE IF parsedJson.k = "object" /\ HasOwnKey(parsedJson, "hasOwnProperty") THEN "throws"
    ELSE IF parsedJson.k = "object" /\ HasOwnKey(parsedJson, "log") THEN "yes"
    ELSE "no"

\* the selections the commands are applied to
MaxEdits == 4

JsonLiterals ==
    {JNull, JTrue, JStr("a"), JStr("\\u0041"),
     JNum("42"), JNum("4.2e1"), JNum("0"), JNum("-0"), JNum("1e400")}

MemberKeys == {"m", "log"}

SelectionTrees ==
    JsonLiterals
    \cup {JArr(items) : items \in SeqsUpTo(JsonLiterals, MaxItems)}
    \cup {JObj(<<Field(key, v)>>) : key \in MemberKeys \cup {"hasOwnProperty"}, v \in JsonLiterals}
    \cup {JObj(<<Field(k1, v1), Field(k2, v2)>>) :
              k1 \in MemberKeys, k2 \in MemberKeys, v1 \in {JNull, JNum("42")}, v2 \in JsonLiterals}
    \cup {JObj(<<Field("m", JArr(<<v, JObj(<<Field("log", v)>>)>>))>>) : v \in JsonLiterals}

Selections == {InvalidText} \cup {TextOf(t) : t \in SelectionTrees}

InitEdit ==
    /\ PathIdle /\ ValidIdle /\ CallIdle /\ ChanIdle /\ RunIdle
    /\ originalText \in Selections
    /\ editorText = originalText
    /\ wrapDepth = 0
    /\ edits = 0

\* the fab-inspector.wrapWithLog command on the selection
WrapWithLog ==
    /\ edits < MaxEdits
    /\ IF ~editorText.valid
       THEN UNCHANGED editVars
       ELSE LET parsedJson == JsonParse(editorText.tree)
                wrappedJson == JObj(<<Field("log", parsedJson)>>)
            IN  /\ editorText' = TextOf(JsonStringify(wrappedJson))
                /\ wrapDepth' = wrapDepth + 1
                /\ edits' = edits + 1
                /\ UNCHANGED originalText
    /\ UNCHANGED <<pathVars, validVars, callVars, chanVars, runVars>>

\* the fab-inspector.unwrapLog command on the selection, applied to what a
\* wrap has produced
UnwrapLog ==
    /\ edits < MaxEdits
    /\ wrapDepth > 0
    /\ IF ~editorText.valid \/ HasOwnLog(JsonParse(editorText.tree)) # "yes"
       THEN UNCHANGED editVars
       ELSE LET parsedJson == JsonParse(editorText.tree)
                innerJson == GetProp(parsedJson, "log")
            IN  /\ editorText' = TextOf(JsonStringify(innerJson))
                /\ wrapDepth' = wrapDepth - 1
                /\ edits' = edits + 1
                /\ UNCHANGED originalText
    /\ UNCHANGED <<pathVars, validVars, callVars, chanVars, runVars>>

NextEdit == WrapWithLog \/ UnwrapLog

SpecEdit == InitEdit /\ [][NextEdit]_vars

\* assert.deepStrictEqual on two JSON values
RECURSIVE DeepEqual(_, _)
DeepEqual(a, b) ==
    /\ a.k = b.k
    /\ a.s = b.s
    /\ Len(a.kids) = Len(b.kids)
    /\ \A i \in 1..Len(a.kids) :
           \E j \in 1..Len(b.kids) :
               /\ (a.k = "array" => j = i)
               /\ a.kids[i].key = b.kids[j].key
               /\ DeepEqual(a.kids[i].val, b.kids[j].val)

\* C20: once every wrap has been undone by an unwrap, the selection holds a
\* value deep-equal to the value it held at first, whatever kind of value
\* that is and however many cycles were made.
C20_RoundTrip ==
    (originalText # <<>> /\ originalText.valid /\ edits > 0 /\ wrapDepth = 0) =>
        /\ editorText.valid
        /\ DeepEqual(JsonParse(editorText.tree), JsonParse(originalText.tree))

(***************************************************************************)
(* OutputChannelManager (outputChannel.ts)                                 *)
(***************************************************************************)
MaxChannelCalls == 6

\* OutputChannelManager.getInstance()
getInstance == ocmInstance' = TRUE

\* dispose() that keeps the reference to the disposed channel
disposeKeepingReference ==
    IF outputChannel # 0
    THEN disposed' = disposed \cup {outputChannel} /\ UNCHANGED outputChannel
    ELSE UNCHANGED <<disposed, outputChannel>>

\* OutputChannelManager.dispose()
dispose ==
    IF outputChannel # 0
    THEN disposed' = disposed \cup {outputChannel} /\ outputChannel' = 0
    ELSE UNCHANGED <<disposed, outputChannel>>

InitChannel ==
    /\ PathIdle /\ ValidIdle /\ CallIdle /\ EditIdle /\ RunIdle
    /\ ocmInstance = FALSE
    /\ outputChannel = 0
    /\ created = 0
    /\ disposed = {}
    /\ returned = <<>>
    /\ lastOp = "none"

\* getOutputChannel()
GetOutputChannel ==
    /\ Len(returned) < MaxChannelCalls
    /\ getInstance
    /\ IF outputChannel = 0
       THEN /\ created' = created + 1
            /\ outputChannel' = created + 1
       ELSE UNCHANGED <<created, outputChannel>>
    /\ returned' = Append(returned, outputChannel')
    /\ lastOp' = "get"
    /\ UNCHANGED disposed
    /\ UNCHANGED <<pathVars, validVars, callVars, editVars, runVars>>

\* disposeOutputChannel()
DisposeOutputChannel ==
    /\ getInstance
    /\ dispose
    /\ lastOp' = "dispose"
    /\ UNCHANGED <<created, returned>>
    /\ UNCHANGED <<pathVars, validVars, callVars, editVars, runVars>>

\* resetOutputChannelManager()
ResetOutputChannelManager ==
    /\ IF ocmInstance
       THEN dispose /\ ocmInstance' = FALSE
       ELSE UNCHANGED <<disposed, outputChannel, ocmInstance>>
    /\ lastOp' = "reset"
    /\ UNCHANGED <<created, returned>>
    /\ UNCHANGED <<pathVars, validVars, callVars, editVars, runVars>>

NextChannel == GetOutputChannel \/ DisposeOutputChannel \/ ResetOutputChannelManager

SpecChannel == InitChannel /\ [][NextChannel]_vars

Undisposed == (1..created) \ disposed

\* C21: at most one channel made by the manager is undisposed; a
\* getOutputChannel call that follows another with nothing in between
\* returns the same channel; no getOutputChannel call returns a channel that
\* was disposed before the call.
C21_SingleLiveChannel ==
    /\ [](Cardinality(Undisposed) <= 1)
    /\ [][(Len(returned') = Len(returned) + 1) =>
              /\ returned'[Len(returned')] \notin disposed
              /\ (lastOp = "get" => returned'[Len(returned')] = returned[Len(returned)])]_vars

\* a channel was disposed and the call after that got a new one, twice over
C21_Witness ==
    /\ lastOp = "get"
    /\ Cardinality(disposed) = 2
    /\ Len(returned) >= 4
    /\ returned[Len(returned)] = 3
    /\ returned[1] = returned[2]

(***************************************************************************)
(* Spec: one command from its start to its end, with the subprocess and    *)
(* timer events that follow a spawn                                        *)
(***************************************************************************)
\* the run requests of the inspect commands: the target is the folder of the
\* workspace the rules file belongs to; these commands pass no cleanup callback
RunRequests ==
    {[fabricItem |-> WsRoot, rules |-> r] :
        r \in {RulesOk, RulesMissing, RulesNoFolder, RulesTxt, RulesOutside}}
    \cup {[fabricItem |-> OtherFolder, rules |-> RulesOutside]}

\* installation states a command can find: no install directory, an empty
\* one, a complete installation with or without its freshness marker, and an
\* installation that lost its Files directory
InitInstall ==
    /\ binFiles \in {{}, {CliExeName, FilesName, TimestampName}, {CliExeName, FilesName},
                     {CliExeName, TimestampName}}
    /\ markerText = (IF TimestampName \in binFiles THEN NumToString(0) ELSE <<>>)
    /\ binDir \in (IF binFiles = {} THEN BOOLEAN ELSE {TRUE})
    /\ startFiles = binFiles

Init ==
    /\ PathIdle /\ ValidIdle /\ CallIdle /\ EditIdle /\ ChanIdle
    /\ cmd \in {"inspect", "runRule", "updateCli"}
    /\ pc = (CASE cmd = "inspect" -> "rfi_start"
               [] cmd = "runRule" -> "rr_start"
               [] OTHER -> "fu_shutdown")
    /\ CASE cmd = "inspect" ->
              /\ workspaceRoot = WsRoot
              /\ \E req \in RunRequests :
                   /\ fabricItemPath = req.fabricItem
                   /\ rulesPath = req.rules
              /\ hasCleanup = FALSE
              /\ formats = Console
              /\ selKind = "rule"
         [] cmd = "runRule" ->
              /\ workspaceRoot \in {<<>>, WsRoot, TmpDir}
              /\ fabricItemPath = workspaceRoot
              /\ rulesPath = TempRulesFile
              /\ formats = GitHub
              /\ hasCleanup = TRUE
              /\ selKind \in {"rule", "id_found", "id_missing"}
         [] OTHER ->
              /\ workspaceRoot = WsRoot
              /\ fabricItemPath = <<>> /\ rulesPath = <<>> /\ formats = <<>>
              /\ hasCleanup = FALSE
              /\ selKind = "rule"
    /\ rfiCalls = (IF cmd = "inspect" THEN 1 ELSE 0)
    /\ tempExists = FALSE /\ cleanupCalls = 0 /\ valFailed = FALSE /\ ecaReturned = FALSE
    /\ isResolved = FALSE /\ settled = "none" /\ settledBy = "none" /\ timerArmed = FALSE
    /\ procAlive = FALSE /\ exitCode = 0 /\ evCount = 0 /\ spawns = 0 /\ spawnRules = <<>>
    /\ nativeCleanups = 0 /\ settleCalls = 0
    /\ stderrText = <<"", "">> /\ exitSeen = FALSE /\ rejectMsg = NoMessage /\ notes = <<{}, {}>>
    /\ platform \in {"win32", "linux"}
    /\ InitInstall
    /\ userConsent \in BOOLEAN /\ consentPrompts = 0 /\ cacheValid = "unknown"
    /\ dlCaller = "none" /\ dlResult = "none" /\ dlCalls = 0 /\ retryCount = 0 /\ attempts = 0
    /\ zipContent = <<>> /\ downloads = 0 /\ shutdownRuns = 0 /\ shutdownDone = FALSE /\ killed = FALSE
    /\ binTouched = FALSE /\ retryOffered = FALSE

\* cleanup?.(): the callback of runRule deletes the temporary rules file
CallCleanup ==
    /\ cleanupCalls' = (IF hasCleanup THEN cleanupCalls + 1 ELSE cleanupCalls)
    /\ tempExists' = (IF hasCleanup /\ cmd = "runRule" THEN FALSE ELSE tempExists)

\* fs.existsSync(rulesPath)
RulesFileExists(p) == p \in ExistingFiles \/ (p = TempRulesFile /\ tempExists)

\* fs.existsSync(rulesDir)
RulesDirExists(dir) == dir = TmpDir \/ \E f \in ExistingFiles : dir = PathDirname(f)

\* vscode.window.show...Message(m) in both runs
Notify(mA, mB) == notes' = <<notes[1] \cup {mA}, notes[2] \cup {mB}>>

NotifyBoth(m) == Notify(m, m)

\* the error runFabInspector shows for a rules file that is not there
RulesNotFoundMessage(p) ==
    IF ~RulesDirExists(PathDirname(p))
    THEN <<"The fab-inspector-rules folder was not found in the workspace">>
    ELSE <<"The rules file ">> \o PathBasename(p)
         \o <<" was not found in the fab-inspector-rules folder">>

----------------------------------------------------------------------------
\* fab-inspector.runRule up to its call of runFabInspector
RunRuleCommand ==
    /\ pc = "rr_start"
    /\ IF selKind = "id_missing" \/ workspaceRoot = <<>>
       THEN /\ pc' = "done"
            /\ UNCHANGED <<tempExists, rfiCalls>>
       ELSE \E writeOk \in BOOLEAN :
              IF writeOk
              THEN tempExists' = TRUE /\ rfiCalls' = rfiCalls + 1 /\ pc' = "rfi_start"
              ELSE tempExists' = FALSE /\ rfiCalls' = rfiCalls /\ pc' = "done"
    /\ UNCHANGED <<reqVars, cleanupCalls, valFailed, ecaReturned, promVars, cliVars>>
    /\ UNCHANGED <<pureVars, noteVars>>

\* variant of runFabInspector whose existence check reports and goes on
RFI_CheckRulesNoReturn ==
    /\ pc = "rfi_start"
    /\ IF ~Includes(rulesPath, TempMarker) /\ ~RulesFileExists(rulesPath)
       THEN /\ NotifyBoth(RulesNotFoundMessage(rulesPath))
            /\ CallCleanup
            /\ pc' = "eca_platform"
       ELSE pc' = "eca_platform" /\ UNCHANGED <<cleanupCalls, tempExists, notes>>
    /\ UNCHANGED <<reqVars, rfiCalls, valFailed, ecaReturned, promVars, cliVars>>
    /\ UNCHANGED <<pureVars, stderrText, exitSeen, rejectMsg>>

\* runFabInspector: the existence check of the rules file
RFI_CheckRules ==
    /\ pc = "rfi_start"
    /\ IF ~Includes(rulesPath, TempMarker) /\ ~RulesFileExists(rulesPath)
       THEN /\ NotifyBoth(RulesNotFoundMessage(rulesPath))
            /\ CallCleanup
            /\ pc' = "done"
       ELSE pc' = "eca_platform" /\ UNCHANGED <<cleanupCalls, tempExists, notes>>
    /\ UNCHANGED <<reqVars, rfiCalls, valFailed, ecaReturned, promVars, cliVars>>
    /\ UNCHANGED <<pureVars, stderrText, exitSeen, rejectMsg>>

\* variant of ensureCliAvailable without the platform check
ECA_NoPlatformCheck ==
    /\ pc = "eca_platform"
    /\ IF FALSE
       THEN pc' = "rfi_catch"
       ELSE \E dotNetOk \in BOOLEAN :
              pc' = (IF dotNetOk THEN "eca_valid" ELSE "rfi_catch")
    /\ UNCHANGED <<reqVars, rfiCalls, tempExists, cleanupCalls, valFailed, ecaReturned, promVars, cliVars>>
    /\ UNCHANGED <<pureVars, noteVars>>

\* ensureCliAvailable: the platform check and ensureDotNetRuntime
ECA_Platform ==
    /\ pc = "eca_platform"
    /\ IF platform # "win32"
       THEN pc' = "rfi_catch"
       ELSE \E dotNetOk \in BOOLEAN :
              pc' = (IF dotNetOk THEN "eca_valid" ELSE "rfi_catch")
    /\ UNCHANGED <<reqVars, rfiCalls, tempExists, cleanupCalls, valFailed, ecaReturned, promVars, cliVars>>
    /\ UNCHANGED <<pureVars, noteVars>>

\* variant of ensureCliAvailable that rewrites the freshness marker of a valid cache
ECA_IsValidTouchMarker ==
    /\ pc = "eca_valid"
    /\ \E autoUpdate \in BOOLEAN, interval \in IntervalConfigs, now \in NowValues,
          readable \in BOOLEAN :
         IF isCliValid(ExeExists(binFiles), FilesFolderExists(binFiles), autoUpdate,
                       [present |-> TimestampName \in binFiles, readable |-> readable,
                        text |-> markerText],
                       interval, now)
         THEN /\ pc' = "rfi_exe_check" /\ ecaReturned' = TRUE /\ cacheValid' = "valid"
              /\ binFiles' = binFiles \cup {TimestampName}
              /\ markerText' = NumToString(now)
              /\ binTouched' = TRUE
              /\ UNCHANGED binDir
         ELSE /\ pc' = "dl_consent" /\ cacheValid' = "invalid"
              /\ UNCHANGED <<ecaReturned, fsVars>>
    /\ dlCaller' = "ensure"
    /\ UNCHANGED <<dlResult, dlCalls, retryCount, attempts, zipContent, retryOffered>>
    /\ UNCHANGED <<platform, userConsent, consentPrompts, downloads, shutdownRuns, shutdownDone, killed>>
    /\ UNCHANGED <<reqVars, rfiCalls, tempExists, cleanupCalls, valFailed, promVars>>
    /\ UNCHANGED <<pureVars, noteVars>>

\* ensureCliAvailable: isCliValid() and the return of the cached path
ECA_IsValid ==
    /\ pc = "eca_valid"
    /\ \E autoUpdate \in BOOLEAN, interval \in IntervalConfigs, now \in NowValues,
          readable \in BOOLEAN :
         IF isCliValid(ExeExists(binFiles), FilesFolderExists(binFiles), autoUpdate,
                       [present |-> TimestampName \in binFiles, readable |-> readable,
                        text |-> markerText],
                       interval, now)
         THEN pc' = "rfi_exe_check" /\ ecaReturned' = TRUE /\ cacheValid' = "valid"
         ELSE pc' = "dl_consent" /\ cacheValid' = "invalid" /\ UNCHANGED ecaReturned
    /\ dlCaller' = "ensure"
    /\ UNCHANGED <<dlResult, dlCalls, retryCount, attempts, zipContent, retryOffered>>
    /\ UNCHANGED <<platform, userConsent, consentPrompts, downloads, shutdownRuns, shutdownDone, killed>>
    /\ UNCHANGED <<reqVars, rfiCalls, tempExists, cleanupCalls, valFailed, promVars, fsVars>>
    /\ UNCHANGED <<pureVars, noteVars>>

\* what cp.spawn can do: start the command, report a failure to start as an
\* 'error' event (ENOENT, EACCES, ...), or throw synchronously (EPERM, ...)
SpawnResults == {"started", "error", "throws"}
ExitCodes == {0, 1}

\* forceShutdownCli(): tasklist, then taskkill when a copy is listed.  returns
\* tells whether the awaited promise is ever resolved, killed whether taskkill
\* terminated a copy.  The try block covers the spawn of tasklist; the spawn of
\* taskkill runs later, inside the 'close' listener of tasklist.
ShutdownOutcome(listSpawn, listCode, found, killSpawn, killCode) ==
    IF listSpawn = "throws" THEN [returns |-> TRUE, killed |-> FALSE]
    ELSE IF listSpawn = "error" THEN [returns |-> TRUE, killed |-> FALSE]
    ELSE IF listCode # 0 THEN [returns |-> TRUE, killed |-> FALSE]
    ELSE IF ~found THEN [returns |-> TRUE, killed |-> FALSE]
    ELSE IF killSpawn = "throws" THEN [returns |-> FALSE, killed |-> FALSE]
    ELSE IF killSpawn = "error" THEN [returns |-> TRUE, killed |-> FALSE]
    ELSE [returns |-> TRUE, killed |-> (killCode = 0)]

\* await this.forceShutdownCli(): the caller continues at next when the call
\* returns and stays suspended when it never does
forceShutdownCli(next) ==
    \E listSpawn \in SpawnResults, listCode \in ExitCodes, found \in BOOLEAN,
       killSpawn \in SpawnResults, killCode \in ExitCodes :
         LET r == ShutdownOutcome(listSpawn, listCode, found, killSpawn, killCode)
         IN  /\ killed' = (killed \/ r.killed)
             /\ IF r.returns
                THEN /\ shutdownRuns' = shutdownRuns + 1
                     /\ shutdownDone' = TRUE
                     /\ pc' = next
                ELSE /\ pc' = "shutdown_pending"
                     /\ UNCHANGED <<shutdownRuns, shutdownDone>>

\* where downloadCli's caller continues
AfterDownloadOk == IF dlCaller = "ensure" THEN "rfi_exe_check" ELSE "done"
AfterDownloadThrow == IF dlCaller = "ensure" THEN "rfi_catch" ELSE "done"

\* forceUpdate: forceShutdownCli()
FU_Shutdown ==
    /\ pc = "fu_shutdown"
    /\ forceShutdownCli("fu_cleanup")
    /\ UNCHANGED <<platform, userConsent, consentPrompts, cacheValid, downloads>>
    /\ UNCHANGED <<reqVars, rfiCalls, tempExists, cleanupCalls, valFailed, ecaReturned, promVars,
                   dlVars, fsVars>>
    /\ UNCHANGED <<pureVars, noteVars>>

\* forceUpdate: cleanupOldCliFiles(), then the call of downloadCli
FU_Cleanup ==
    /\ pc = "fu_cleanup"
    /\ \E failAt \in CleanupFailPoints(binFiles) :
         binFiles' = cleanupOldCliFiles(binFiles, failAt)
    /\ binTouched' = (binTouched \/ binFiles' # binFiles)
    /\ dlCaller' = "force"
    /\ pc' = "dl_consent"
    /\ UNCHANGED <<binDir, markerText>>
    /\ UNCHANGED <<dlResult, dlCalls, retryCount, attempts, zipContent, retryOffered>>
    /\ UNCHANGED <<reqVars, rfiCalls, tempExists, cleanupCalls, valFailed, ecaReturned, promVars, envVars>>
    /\ UNCHANGED <<pureVars, noteVars>>

\* variant of the consent step that does not persist a granted consent
DL_ConsentNotPersisted ==
    /\ pc = "dl_consent"
    /\ dlCalls' = dlCalls + 1
    /\ retryCount' = 0
    /\ zipContent' = <<>>
    /\ consentPrompts' = (IF userConsent THEN consentPrompts ELSE consentPrompts + 1)
    /\ \E answer \in {"Yes", "No"} :
         IF userConsent \/ answer = "Yes"
         THEN /\ userConsent' = userConsent
              /\ dlResult' = "running"
              /\ attempts' = 1
              /\ shutdownDone' = FALSE
              /\ pc' = "dl_shutdown"
         ELSE /\ userConsent' = userConsent
              /\ dlResult' = "refused"
              /\ attempts' = 0
              /\ pc' = AfterDownloadThrow
              /\ UNCHANGED shutdownDone
    /\ UNCHANGED <<dlCaller, retryOffered>>
    /\ UNCHANGED <<platform, cacheValid, downloads, shutdownRuns, killed>>
    /\ UNCHANGED <<reqVars, rfiCalls, tempExists, cleanupCalls, valFailed, ecaReturned, promVars, fsVars>>
    /\ UNCHANGED <<pureVars, noteVars>>

\* downloadCli: the consent prompt and the entry of the retry loop
DL_Consent ==
    /\ pc = "dl_consent"
    /\ dlCalls' = dlCalls + 1
    /\ retryCount' = 0
    /\ zipContent' = <<>>
    /\ consentPrompts' = (IF userConsent THEN consentPrompts ELSE consentPrompts + 1)
    /\ \E answer \in {"Yes", "No"} :
         IF userConsent \/ answer = "Yes"
         THEN /\ userConsent' = TRUE
              /\ dlResult' = "running"
              /\ attempts' = 1
              /\ shutdownDone' = FALSE
              /\ pc' = "dl_shutdown"
         ELSE /\ userConsent' = userConsent
              /\ dlResult' = "refused"
              /\ attempts' = 0
              /\ pc' = AfterDownloadThrow
              /\ UNCHANGED shutdownDone
    /\ UNCHANGED <<dlCaller, retryOffered>>
    /\ UNCHANGED <<platform, cacheValid, downloads, shutdownRuns, killed>>
    /\ UNCHANGED <<reqVars, rfiCalls, tempExists, cleanupCalls, valFailed, ecaReturned, promVars, fsVars>>
    /\ UNCHANGED <<pureVars, noteVars>>

\* variant of the attempt's first step that starts forceShutdownCli without
\* awaiting it
DL_ShutdownNotAwaited ==
    /\ pc = "dl_shutdown"
    /\ pc' = "dl_prepare"
    /\ UNCHANGED <<shutdownRuns, shutdownDone, killed>>
    /\ UNCHANGED <<platform, userConsent, consentPrompts, cacheValid, downloads>>
    /\ UNCHANGED <<reqVars, rfiCalls, tempExists, cleanupCalls, valFailed, ecaReturned, promVars,
                   dlVars, fsVars>>
    /\ UNCHANGED <<pureVars, noteVars>>

\* attempt: forceShutdownCli()
DL_Shutdown ==
    /\ pc = "dl_shutdown"
    /\ forceShutdownCli("dl_prepare")
    /\ UNCHANGED <<platform, userConsent, consentPrompts, cacheValid, downloads>>
    /\ UNCHANGED <<reqVars, rfiCalls, tempExists, cleanupCalls, valFailed, ecaReturned, promVars,
                   dlVars, fsVars>>
    /\ UNCHANGED <<pureVars, noteVars>>

\* attempt: mkdirSync of the install directory (which can throw) and
\* cleanupOldCliFiles()
DL_Prepare ==
    /\ pc = "dl_prepare"
    /\ \E mkdirOk \in BOOLEAN :
         IF ~binDir /\ ~mkdirOk
         THEN /\ pc' = "dl_catch"
              /\ UNCHANGED <<binDir, binFiles, binTouched>>
         ELSE /\ binDir' = TRUE
              /\ \E failAt \in CleanupFailPoints(binFiles) :
                   binFiles' = cleanupOldCliFiles(binFiles, failAt)
              /\ binTouched' = (binTouched \/ ~binDir \/ binFiles' # binFiles)
              /\ pc' = "dl_download"
    /\ UNCHANGED markerText
    /\ UNCHANGED <<reqVars, rfiCalls, tempExists, cleanupCalls, valFailed, ecaReturned, promVars,
                   dlVars, envVars>>
    /\ UNCHANGED <<pureVars, noteVars>>

\* attempt: downloadFile(cliUrl, zipPath); a failed transfer removes the
\* partial file before rejecting
DL_Download ==
    /\ pc = "dl_download"
    /\ downloads' = downloads + 1
    /\ binTouched' = TRUE
    /\ \/ \E archive \in Archives :
            /\ zipContent' = archive
            /\ binFiles' = binFiles \cup {ZipName}
            /\ pc' = "dl_extract"
       \/ /\ zipContent' = <<>>
          /\ binFiles' = binFiles \ {ZipName}
          /\ pc' = "dl_catch"
    /\ UNCHANGED <<binDir, markerText>>
    /\ UNCHANGED <<dlCaller, dlResult, dlCalls, retryCount, attempts, retryOffered>>
    /\ UNCHANGED <<platform, userConsent, consentPrompts, cacheValid, shutdownRuns, shutdownDone, killed>>
    /\ UNCHANGED <<reqVars, rfiCalls, tempExists, cleanupCalls, valFailed, ecaReturned, promVars>>
    /\ UNCHANGED <<pureVars, noteVars>>

\* attempt: extractZip(zipPath, cliDirectory)
DL_Extract ==
    /\ pc = "dl_extract"
    /\ LET r == extractZip(zipContent, binFiles)
       IN  /\ binFiles' = r.files
           /\ pc' = (IF r.threw THEN "dl_catch" ELSE "dl_verify")
    /\ UNCHANGED <<binDir, markerText, binTouched>>
    /\ UNCHANGED <<reqVars, rfiCalls, tempExists, cleanupCalls, valFailed, ecaReturned, promVars,
                   dlVars, envVars>>
    /\ UNCHANGED <<pureVars, noteVars>>

\* attempt: the check of the executable, the removal of the archive and the
\* writing of the freshness marker; downloadCli returns
DL_Verify ==
    /\ pc = "dl_verify"
    /\ IF ~ExeExists(binFiles)
       THEN /\ pc' = "dl_catch"
            /\ UNCHANGED <<binFiles, markerText, dlResult, ecaReturned, zipContent>>
       ELSE /\ binFiles' = (binFiles \ {ZipName}) \cup {TimestampName}
            /\ zipContent' = <<>>
            /\ \E now \in InstallTimes : markerText' = NumToString(now)
            /\ dlResult' = "ok"
            /\ ecaReturned' = (dlCaller = "ensure")
            /\ pc' = AfterDownloadOk
    /\ UNCHANGED <<binDir, binTouched>>
    /\ UNCHANGED <<dlCaller, dlCalls, retryCount, attempts, retryOffered>>
    /\ UNCHANGED <<reqVars, rfiCalls, tempExists, cleanupCalls, valFailed, promVars, envVars>>
    /\ UNCHANGED <<pureVars, noteVars>>

\* variant of the catch block that gives up one failure later
DL_CatchOneMore ==
    /\ pc = "dl_catch"
    /\ retryCount' = retryCount + 1
    /\ IF retryCount' > MaxRetries
       THEN /\ dlResult' = "failed"
            /\ retryOffered' = TRUE
            /\ pc' = AfterDownloadThrow
            /\ UNCHANGED <<attempts, shutdownDone>>
       ELSE /\ attempts' = attempts + 1
            /\ shutdownDone' = FALSE
            /\ pc' = "dl_shutdown"
            /\ UNCHANGED <<dlResult, retryOffered>>
    /\ zipContent' = <<>>
    /\ UNCHANGED <<dlCaller, dlCalls>>
    /\ UNCHANGED <<platform, userConsent, consentPrompts, cacheValid, downloads, shutdownRuns, killed>>
    /\ UNCHANGED <<reqVars, rfiCalls, tempExists, cleanupCalls, valFailed, ecaReturned, promVars,
                   fsVars>>
    /\ UNCHANGED <<pureVars, noteVars>>

\* the catch block of the loop: count the failure, give up after maxRetries
DL_Catch ==
    /\ pc = "dl_catch"
    /\ retryCount' = retryCount + 1
    /\ IF retryCount' >= MaxRetries
       THEN /\ dlResult' = "failed"
            /\ retryOffered' = TRUE
            /\ pc' = AfterDownloadThrow
            /\ UNCHANGED <<attempts, shutdownDone>>
       ELSE /\ attempts' = attempts + 1
            /\ shutdownDone' = FALSE
            /\ pc' = "dl_shutdown"
            /\ UNCHANGED <<dlResult, retryOffered>>
    /\ zipContent' = <<>>
    /\ UNCHANGED <<dlCaller, dlCalls>>
    /\ UNCHANGED <<platform, userConsent, consentPrompts, cacheValid, downloads, shutdownRuns, killed>>
    /\ UNCHANGED <<reqVars, rfiCalls, tempExists, cleanupCalls, valFailed, ecaReturned, promVars,
                   fsVars>>
    /\ UNCHANGED <<pureVars, noteVars>>

\* the user presses Retry on the terminal error: a new downloadCli call
ManualRetry ==
    /\ pc = "done"
    /\ retryOffered
    /\ dlCalls < MaxDownloadCalls
    /\ retryOffered' = FALSE
    /\ dlCaller' = "retry"
    /\ pc' = "dl_consent"
    /\ UNCHANGED <<dlResult, dlCalls, retryCount, attempts, zipContent>>
    /\ UNCHANGED <<reqVars, rfiCalls, tempExists, cleanupCalls, valFailed, ecaReturned, promVars,
                   fsVars, envVars>>
    /\ UNCHANGED <<pureVars, noteVars>>

\* runFabInspector: the existsSync check of the returned executable path
RFI_ExeCheck ==
    /\ pc = "rfi_exe_check"
    /\ IF ~ExeExists(binFiles)
       THEN CallCleanup /\ pc' = "done"
       ELSE pc' = "rnc_validate" /\ UNCHANGED <<cleanupCalls, tempExists>>
    /\ UNCHANGED <<reqVars, rfiCalls, valFailed, ecaReturned, promVars, cliVars>>
    /\ UNCHANGED <<pureVars, noteVars>>

\* the validation block of runNativeCommand: the message of the first check
\* that throws, ThrowNone when all pass
ThrowExtension == "Rules file must have .json extension"

ValidateRunInputs(fabricItem, rules, wsRoot) ==
    LET safeFabricItemPath == validateFilePath(fabricItem, wsRoot)
        safeRulesPath == validateFilePath(rules, wsRoot)
    IN  IF safeFabricItemPath.threw # ThrowNone THEN safeFabricItemPath
        ELSE IF safeRulesPath.threw # ThrowNone THEN safeRulesPath
        ELSE IF ~validateFileExtension(safeRulesPath.value, {JsonExt})
             THEN [threw |-> ThrowExtension, value |-> <<>>]
        ELSE safeRulesPath

\* what the subprocess can write to stderr in the two runs
StderrPairs == {<<"", "E1">>, <<"E1", "E2">>}

\* stderr || `Process exited with code ${code}`
ErrorMessage(err, code) ==
    IF err # "" THEN <<err>> ELSE <<"Process exited with code ">> \o NumToString(code)

\* isSingleRule ? `Fab Inspector rule failed: ${errorMessage}` : `One or more ...`
FailMessage(isSingleRule, errorMessage) ==
    IF isSingleRule
    THEN <<"Fab Inspector rule failed: ">> \o errorMessage
    ELSE <<"One or more Fab Inspector test(s) failed.">>

SpawnErrorText == <<"spawn EACCES">>

\* runNativeCommand up to the return of its promise: validation, then the
\* timer, the handlers and spawn(); a validation error is caught, cleanup is
\* called and the error is thrown to runFabInspector
RNC_Validate ==
    /\ pc = "rnc_validate"
    /\ LET v == ValidateRunInputs(fabricItemPath, rulesPath, workspaceRoot)
       IN  IF v.threw # ThrowNone
           THEN /\ valFailed' = TRUE
                /\ NotifyBoth(<<"Security validation failed: Error: ", v.threw>>)
                /\ rejectMsg' = <<<<v.threw>>, <<v.threw>>>>
                /\ CallCleanup
                /\ pc' = "rfi_catch"
                /\ UNCHANGED <<promVars, stderrText, exitSeen>>
           ELSE /\ NotifyBoth(<<"Running Fab Inspector with rules file ">> \o PathBasename(v.value))
                /\ isResolved' = FALSE
                /\ settled' = "pending"
                /\ timerArmed' = TRUE
                /\ spawns' = spawns + 1
                /\ spawnRules' = v.value
                /\ procAlive' \in BOOLEAN
                /\ exitCode' \in {0, 1}
                /\ stderrText' \in StderrPairs
                /\ pc' = "rfi_await"
                /\ UNCHANGED <<settledBy, evCount, nativeCleanups, settleCalls, exitSeen, rejectMsg>>
                /\ UNCHANGED <<valFailed, cleanupCalls, tempExists>>
    /\ UNCHANGED <<reqVars, rfiCalls, ecaReturned, cliVars>>
    /\ UNCHANGED pureVars

\* resolve() / reject(error): only the first call settles the promise
Settle(outcome, by, message) ==
    /\ settleCalls' = settleCalls + 1
    /\ settled' = (IF settled = "pending" THEN outcome ELSE settled)
    /\ settledBy' = (IF settled = "pending" THEN by ELSE settledBy)
    /\ rejectMsg' = (IF settled = "pending" /\ outcome = "rejected" THEN message ELSE rejectMsg)

\* variant of cleanupAndResolve without the isResolved guard
cleanupAndResolveUnguarded(isError, by, message) ==
    /\ isResolved' = TRUE
    /\ timerArmed' = FALSE
    /\ CallCleanup
    /\ nativeCleanups' = (IF hasCleanup THEN nativeCleanups + 1 ELSE nativeCleanups)
    /\ Settle(IF isError THEN "rejected" ELSE "resolved", by, message)

\* cleanupAndResolve(error?) called by handler `by`
cleanupAndResolve(isError, by, message) ==
    IF isResolved
    THEN UNCHANGED <<isResolved, timerArmed, cleanupCalls, tempExists, nativeCleanups, settleCalls,
                     settled, settledBy, rejectMsg>>
    ELSE /\ isResolved' = TRUE
         /\ timerArmed' = FALSE
         /\ CallCleanup
         /\ nativeCleanups' = (IF hasCleanup THEN nativeCleanups + 1 ELSE nativeCleanups)
         /\ Settle(IF isError THEN "rejected" ELSE "resolved", by, message)

TimeoutMessage == <<<<"Process timed out after 5 minutes">>, <<"Process timed out after 5 minutes">>>>

\* variant of the setTimeout callback that does not set isResolved
TimeoutWithoutFlag ==
    /\ timerArmed
    /\ timerArmed' = FALSE
    /\ IF ~isResolved
       THEN /\ isResolved' = FALSE
            /\ CallCleanup
            /\ nativeCleanups' = (IF hasCleanup THEN nativeCleanups + 1 ELSE nativeCleanups)
            /\ Settle("rejected", "timeout", TimeoutMessage)
       ELSE UNCHANGED <<isResolved, cleanupCalls, tempExists, nativeCleanups, settleCalls, settled, settledBy,
                        rejectMsg>>
    /\ UNCHANGED <<procAlive, exitCode, evCount, spawns, spawnRules>>
    /\ UNCHANGED <<stderrText, exitSeen, notes>>
    /\ UNCHANGED <<reqVars, rfiCalls, pc, valFailed, ecaReturned, cliVars>>
    /\ UNCHANGED pureVars

\* the setTimeout callback
Timeout ==
    /\ timerArmed
    /\ timerArmed' = FALSE
    /\ IF ~isResolved
       THEN /\ isResolved' = TRUE
            /\ CallCleanup
            /\ nativeCleanups' = (IF hasCleanup THEN nativeCleanups + 1 ELSE nativeCleanups)
            /\ Settle("rejected", "timeout", TimeoutMessage)
       ELSE UNCHANGED <<isResolved, cleanupCalls, tempExists, nativeCleanups, settleCalls, settled, settledBy,
                        rejectMsg>>
    /\ UNCHANGED <<procAlive, exitCode, evCount, spawns, spawnRules>>
    /\ UNCHANGED <<stderrText, exitSeen, notes>>
    /\ UNCHANGED <<reqVars, rfiCalls, pc, valFailed, ecaReturned, cliVars>>
    /\ UNCHANGED pureVars

\* process.on('close', code) with isSingleRule = false; node emits 'close'
\* only after 'exit', or after 'error' when the subprocess failed to start
OnClose ==
    /\ settled # "none"
    /\ exitSeen
    /\ evCount < MaxEvents
    /\ evCount' = evCount + 1
    /\ procAlive' = FALSE
    /\ IF exitCode = 0
       THEN NotifyBoth(<<"Fab Inspector completed successfully!">>)
       ELSE Notify(FailMessage(FALSE, ErrorMessage(stderrText[1], exitCode)),
                   FailMessage(FALSE, ErrorMessage(stderrText[2], exitCode)))
    /\ cleanupAndResolve(exitCode # 0, "close",
                         <<ErrorMessage(stderrText[1], exitCode),
                           ErrorMessage(stderrText[2], exitCode)>>)
    /\ UNCHANGED <<exitCode, spawns, spawnRules, stderrText, exitSeen>>
    /\ UNCHANGED <<reqVars, rfiCalls, pc, valFailed, ecaReturned, cliVars>>
    /\ UNCHANGED pureVars

\* variant of the 'exit' handler that only logs the code
OnExitLogOnly ==
    /\ settled # "none"
    /\ evCount < MaxEvents
    /\ evCount' = evCount + 1
    /\ procAlive' = FALSE
    /\ exitSeen' = TRUE
    /\ UNCHANGED <<isResolved, timerArmed, cleanupCalls, tempExists, nativeCleanups, settleCalls,
                   settled, settledBy, rejectMsg>>
    /\ UNCHANGED <<exitCode, spawns, spawnRules, stderrText, notes>>
    /\ UNCHANGED <<reqVars, rfiCalls, pc, valFailed, ecaReturned, cliVars>>
    /\ UNCHANGED pureVars

\* process.on('exit', code)
OnExit ==
    /\ settled # "none"
    /\ evCount < MaxEvents
    /\ evCount' = evCount + 1
    /\ procAlive' = FALSE
    /\ exitSeen' = TRUE
    /\ IF ~isResolved
       THEN cleanupAndResolve(FALSE, "exit", NoMessage)
       ELSE UNCHANGED <<isResolved, timerArmed, cleanupCalls, tempExists, nativeCleanups, settleCalls,
                        settled, settledBy, rejectMsg>>
    /\ UNCHANGED <<exitCode, spawns, spawnRules, stderrText, notes>>
    /\ UNCHANGED <<reqVars, rfiCalls, pc, valFailed, ecaReturned, cliVars>>
    /\ UNCHANGED pureVars

\* process.on('error', error): the subprocess could not be started
OnError ==
    /\ settled # "none"
    /\ ~procAlive
    /\ evCount < MaxEvents
    /\ evCount' = evCount + 1
    /\ exitSeen' = TRUE
    /\ NotifyBoth(<<"Fab Inspector execution failed: ">> \o SpawnErrorText)
    /\ cleanupAndResolve(TRUE, "error", <<SpawnErrorText, SpawnErrorText>>)
    /\ UNCHANGED <<procAlive, exitCode, spawns, spawnRules, stderrText>>
    /\ UNCHANGED <<reqVars, rfiCalls, pc, valFailed, ecaReturned, cliVars>>
    /\ UNCHANGED pureVars

\* runFabInspector resumes from `await runNativeCommand(...)`
RFI_Await ==
    /\ pc = "rfi_await"
    /\ settled \in {"resolved", "rejected"}
    /\ pc' = (IF settled = "resolved" THEN "done" ELSE "rfi_catch")
    /\ UNCHANGED <<reqVars, rfiCalls, tempExists, cleanupCalls, valFailed, ecaReturned, promVars, cliVars>>
    /\ UNCHANGED <<pureVars, noteVars>>

\* the error ensureCliAvailable threw (nothing has been spawned then)
AcquisitionError == <<"ensureCliAvailable failed">>

\* the catch block of runFabInspector: `Failed to run Fab Inspector: ${error}`
RFI_Catch ==
    /\ pc = "rfi_catch"
    /\ IF rejectMsg = NoMessage
       THEN NotifyBoth(<<"Failed to run Fab Inspector: Error: ">> \o AcquisitionError)
       ELSE Notify(<<"Failed to run Fab Inspector: Error: ">> \o rejectMsg[1],
                   <<"Failed to run Fab Inspector: Error: ">> \o rejectMsg[2])
    /\ CallCleanup
    /\ pc' = "done"
    /\ UNCHANGED <<reqVars, rfiCalls, valFailed, ecaReturned, promVars, cliVars>>
    /\ UNCHANGED <<stderrText, exitSeen, rejectMsg>>
    /\ UNCHANGED pureVars

Next ==
    \/ RunRuleCommand
    \/ RFI_CheckRules
    \/ ECA_Platform
    \/ ECA_IsValid
    \/ FU_Shutdown
    \/ FU_Cleanup
    \/ DL_Consent
    \/ DL_Shutdown
    \/ DL_Prepare
    \/ DL_Download
    \/ DL_Extract
    \/ DL_Verify
    \/ DL_Catch
    \/ ManualRetry
    \/ RFI_ExeCheck
    \/ RNC_Validate
    \/ Timeout
    \/ OnClose
    \/ OnExit
    \/ OnError
    \/ RFI_Await
    \/ RFI_Catch

Spec == Init /\ [][Next]_vars

(***************************************************************************)
(* Properties of Spec                                                      *)
(***************************************************************************)

\* C1: a cleanup callback given to runFabInspector is invoked exactly once
\* per run, on every path that ends the run, and never a second time.
C1_CleanupExactlyOnce ==
    (hasCleanup /\ rfiCalls = 1) =>
        /\ cleanupCalls <= 1
        /\ (pc = "done" => cleanupCalls = 1)

\* C2: a run settled by the subprocess's exit or close event is a success
\* when the exit code is 0 and a failure when it is not, whichever of the two
\* events is delivered first.
C2_SettlementMatchesExitCode ==
    settledBy \in {"exit", "close"} => ((settled = "resolved") <=> (exitCode = 0))

C4_NoSideEffectBeforeRejection ==
    valFailed =>
        /\ downloads = 0
        /\ ~binTouched
        /\ shutdownRuns = 0
        /\ ~killed
        /\ spawns = 0

\* C5: Run Selected Rule with a usable selection, an open workspace and the
\* CLI available ends having spawned the CLI with '-rules' set to the
\* temporary rules file it wrote.
C5_RunRuleSpawnsWithTempFile ==
    (cmd = "runRule" /\ rfiCalls = 1 /\ ecaReturned /\ pc = "done") =>
        (spawns = 1 /\ spawnRules = TempRulesFile)

\* C7: at the moment ensureCliAvailable returns the executable path, the
\* executable and the Files directory both exist in the install directory.
C7_ReturnedInstallUsable ==
    pc = "rfi_exe_check" => (ExeExists(binFiles) /\ FilesFolderExists(binFiles))

AttemptPcs == {"dl_shutdown", "dl_prepare", "dl_download", "dl_extract", "dl_verify", "dl_catch"}

\* C8: a downloadCli call starts at most MaxRetries attempts, each one only
\* after all earlier ones have failed; it starts none after a success, and
\* after the last failure it ends with the terminal error.
C8_AtMostThreeAttempts ==
    /\ attempts <= MaxRetries
    /\ (pc \in AttemptPcs => (dlResult = "running" /\ attempts = retryCount + 1))
    /\ (dlResult = "ok" => pc \notin AttemptPcs)
    /\ (dlResult = "failed" =>
            (attempts = MaxRetries /\ retryCount = MaxRetries /\ pc \notin AttemptPcs))

\* the terminal error after the third failed attempt
C8_Witness ==
    dlResult = "failed" /\ attempts = MaxRetries /\ downloads = MaxRetries /\ retryOffered

\* C9: extractZip of an archive with a traversal entry, at any position,
\* throws and leaves the install directory as it was.
C9_TraversalRejectedBeforeWrite ==
    [][(pc = "dl_extract" /\ HasTraversal(zipContent)) =>
            (binFiles' = binFiles /\ pc' # "dl_verify")]_vars

\* an archive whose first entry is the executable and whose second entry
\* has a traversal segment was rejected with the executable not written
C9_Witness ==
    /\ pc = "dl_catch"
    /\ Len(zipContent) = 2
    /\ zipContent[1] = EntryExe
    /\ Includes(zipContent[2], DotDot)
    /\ ~ExeExists(binFiles)

DownloadPcs == AttemptPcs \cup {"dl_consent"}

ValidWithoutMarker ==
    ExeExists(binFiles) /\ FilesFolderExists(binFiles) /\ TimestampName \notin binFiles

\* ensureCliAvailable threw before it reached isCliValid
ThrewBeforeValidity ==
    pc = "rfi_catch" /\ cacheValid = "unknown" /\ ~valFailed /\ settled = "none"

\* C12 amended: on win32, once ensureDotNetRuntime has returned, a cache that
\* isCliValid accepts is returned with no request for the CLI archive, no
\* process termination and no change in the install directory, and a cache
\* it rejects is returned only after a successful acquisition; when
\* ensureDotNetRuntime throws, no path is returned and nothing is changed.
C12_ValidCacheUntouched ==
    /\ (ThrewBeforeValidity =>
            (~ecaReturned /\ downloads = 0 /\ shutdownRuns = 0 /\ ~killed /\ ~binTouched))
    /\ (cacheValid = "valid" =>
            /\ ecaReturned /\ pc \notin DownloadPcs
            /\ dlCalls = 0 /\ downloads = 0 /\ consentPrompts = 0
            /\ shutdownRuns = 0 /\ ~killed /\ ~binTouched
            /\ ExeExists(binFiles) /\ FilesFolderExists(binFiles))
    /\ ((cacheValid = "invalid" /\ ecaReturned) =>
            /\ dlResult = "ok" /\ downloads >= 1 /\ shutdownRuns >= 1
            /\ TimestampName \in binFiles)

\* C12 as stated: on win32 a valid cache always makes ensureCliAvailable
\* return the cached path, with nothing changed.
C12_ValidCacheAlwaysReturned ==
    /\ C12_ValidCacheUntouched
    /\ ((platform = "win32" /\ ValidWithoutMarker /\ dlCalls = 0
            /\ pc \in {"rfi_catch", "rfi_exe_check"}) => ecaReturned)

\* a run that used the cached installation, freshness marker included, ended
C12_Witness ==
    /\ cacheValid = "valid" /\ pc = "done" /\ spawns = 1
    /\ TimestampName \in binFiles /\ markerText = NumToString(0)

\* C13: on another platform than win32 ensureCliAvailable throws before any
\* validity check, prompt, process termination, download or write, and
\* nothing is retried.
C13_UnsupportedPlatformFailsFirst ==
    (platform # "win32" /\ cmd \in {"inspect", "runRule"}) =>
        /\ ~ecaReturned /\ cacheValid = "unknown"
        /\ pc \notin (DownloadPcs \cup {"eca_valid", "rfi_exe_check", "rnc_validate", "rfi_await"})
        /\ dlCalls = 0 /\ attempts = 0 /\ consentPrompts = 0 /\ ~retryOffered
        /\ downloads = 0 /\ shutdownRuns = 0 /\ ~killed /\ ~binTouched /\ spawns = 0

\* a run on another platform went through the catch block of runFabInspector
C13_Witness ==
    platform # "win32" /\ cmd = "inspect" /\ pc = "done" /\ RulesFileExists(rulesPath)

\* C14: in aggregate mode the notifications of a run do not depend on the
\* subprocess's stderr: two runs that differ only in the stderr text show
\* the same notification messages.
C14_NotificationsIgnoreStderr ==
    notes[1] = notes[2]

\* two runs with different stderr text whose subprocess exited with code 1
\* have ended, after the 'close' handler showed its failure message
C14_Witness ==
    /\ pc = "done" /\ spawns = 1 /\ exitCode # 0
    /\ stderrText[1] # stderrText[2]
    /\ FailMessage(FALSE, ErrorMessage(stderrText[1], exitCode)) \in notes[1]

\* the rules path of a runFabInspector call is not on disk and has no marker
RulesAbsent == ~Includes(rulesPath, TempMarker) /\ ~RulesFileExists(rulesPath)

C23_SettledOnce ==
    /\ [](settleCalls <= 1 /\ nativeCleanups <= 1)
    /\ [][(settled # "none" /\ settled # "pending") =>
              (settled' = settled /\ settledBy' = settledBy /\ rejectMsg' = rejectMsg
               /\ settleCalls' = settleCalls /\ nativeCleanups' = nativeCleanups)]_vars

\* the error event settled the promise and two more events were handled
C23_Witness ==
    /\ settledBy = "error" /\ hasCleanup
    /\ evCount = MaxEvents
    /\ settleCalls = 1 /\ nativeCleanups = 1

\* ---------------------------------------------------------------------------
\* C24: in every attempt of downloadCli and in forceUpdate, forceShutdownCli
\* has returned before the first step that deletes, creates or writes
\* anything in the install directory in that attempt
\* ---------------------------------------------------------------------------

\* this step changes the install directory
InstallDirChanges ==
    \/ binDir' # binDir
    \/ binFiles' # binFiles
    \/ markerText' # markerText

\* C24: a step of an acquisition attempt or of forceUpdate changes the install
\* directory only after forceShutdownCli has run to completion in that attempt,
\* whether or not it found or killed a running copy.
C24_ShutdownBeforeFiles ==
    [][(InstallDirChanges /\ pc \in {"fu_cleanup", "dl_prepare", "dl_download", "dl_extract",
                                     "dl_verify", "dl_catch"})
           => shutdownDone]_vars

\* the second attempt of a forceUpdate has downloaded its archive into the
\* install directory after three shutdown steps, none of which killed anything
C24_Witness ==
    /\ cmd = "updateCli" /\ pc = "dl_extract" /\ attempts = 2
    /\ ZipName \in binFiles
    /\ shutdownDone /\ shutdownRuns = 3 /\ ~killed

\* ---------------------------------------------------------------------------
\* C25: a failure of the process-termination step never stops an attempt
\* ---------------------------------------------------------------------------

\* C25: whatever tasklist and taskkill do (fail to start, exit nonzero, list
\* nothing), forceShutdownCli completes without throwing and its caller goes on
\* to the next step: cleanupOldCliFiles in forceUpdate, mkdirSync and
\* cleanupOldCliFiles in an attempt of downloadCli.
C25_ShutdownNeverAborts ==
    [][(pc = "fu_shutdown" \/ pc = "dl_shutdown") =>
           /\ shutdownRuns' = shutdownRuns + 1
           /\ pc' = (IF pc = "fu_shutdown" THEN "fu_cleanup" ELSE "dl_prepare")]_vars

\* ---------------------------------------------------------------------------
\* C26: an acquisition that fails in every attempt leaves a complete
\* installation in place
\* ---------------------------------------------------------------------------

\* the executable and its auxiliary directory are both present
StructurallyComplete(files) == ExeExists(files) /\ FilesFolderExists(files)

\* C26: when downloadCli has ended with its terminal error after the last
\* attempt, an installation that was structurally complete when the command
\* was invoked is still structurally complete.
C26_InstallSurvivesFailure ==
    (dlResult = "failed" /\ StructurallyComplete(startFiles)) => StructurallyComplete(binFiles)

\* ---------------------------------------------------------------------------
\* C27: a refused download consent leaves the installation and the running
\* copies of the executable alone
\* ---------------------------------------------------------------------------

\* C27: when the user has answered No to the consent prompt of downloadCli,
\* the entry point that raised it (ensureCliAvailable or forceUpdate) has
\* deleted or created nothing in the install directory and has terminated no
\* process.
C27_RefusalTouchesNothing ==
    dlResult = "refused" => (binFiles = startFiles /\ ~binTouched /\ ~killed)

\* ---------------------------------------------------------------------------
\* C28: a settled run has no running subprocess
\* ---------------------------------------------------------------------------

\* C28: once the promise of runNativeCommand has been resolved or rejected, by
\* the close, exit or error handler or by the 5-minute timer, the subprocess
\* spawned for that run is no longer running.
C28_SettledMeansStopped ==
    settled \in {"resolved", "rejected"} => ~procAlive

\* ---------------------------------------------------------------------------
\* C29: findRuleById finds a rule that is in the document
\* ---------------------------------------------------------------------------

\* C29: when the document parses and holds, at any depth, at least one object
\* whose id is the rule id, findRuleById returns a result that is not null,
\* whatever else the document holds.
C29_FoundWhenPresent ==
    (callOf = "findRuleById" /\ callOut.done /\ callIn[1].parses
        /\ Len(Walk(callIn[1].value, callIn[2])) > 0)
    => callOut.value.found

\* ---------------------------------------------------------------------------
\* C30: downloadCli does not leave its temporary archive behind
\* ---------------------------------------------------------------------------

\* C30: when a call of downloadCli has ended, with success or with its
\* terminal error after the last attempt, cli-temp.zip is not in the install
\* directory, whichever step failed in the last attempt.
C30_NoArchiveLeftBehind ==
    dlResult \in {"ok", "failed"} => ZipName \notin binFiles

====
